---- MODULE Spec2Model ----
(***************************************************************************)
(* The self-improvement pipeline of the Ruya Logistics voice agent:        *)
(* the capability registry (tools.ts), the profile client (vapi.ts), the   *)
(* orchestrator (self-improve.ts), the baseline reset (baseline.ts) and    *)
(* the brain's create_tool decision (brain.ts).                            *)
(*                                                                         *)
(* Every action is the completion of one awaited external call followed by *)
(* the synchronous code that runs up to the next await, so the             *)
(* interleavings of the model are those of the single-threaded event loop. *)
(***************************************************************************)
EXTENDS Integers, Sequences, FiniteSets, TLC

VARIABLES
    registry,   \* tools.ts: Map<string, RegisteredTool>, in insertion order
    history,    \* self-improve.ts: ImprovementRecord[]
    profile,    \* the assistant object held by the provider (Vapi)
    env,        \* process.env: which integrations are configured
    task,       \* one record per asynchronous call in flight
    started,    \* number of calls started so far
    nextToolId, \* ids handed out by the provider's POST /tool
    faults      \* number of external calls that have failed so far

vars == <<registry, history, profile, env, task, started, nextToolId, faults>>

-----------------------------------------------------------------------------
(* Bounds of the model *)

\* calls started in one behaviour of SpecLife
MaxRuns == 2
\* capabilities one change-set asks for
MaxTools == 2
\* external calls that fail in one behaviour
MaxFaults == 2

TaskIds == {"a", "b"}

-----------------------------------------------------------------------------
(* Generic helpers on records seen as JS objects *)

\* {...f, ...g}
Merge(f, g) ==
    [k \in (DOMAIN f) \cup (DOMAIN g) |-> IF k \in DOMAIN g THEN g[k] ELSE f[k]]

EmptyObj == [k \in {} |-> 0]

Has(obj, k) == k \in DOMAIN obj

RemoveAt(s, i) == [j \in 1..(Len(s) - 1) |-> IF j < i THEN s[j] ELSE s[j + 1]]

SeqsUpTo(S, n) == UNION {[1..k -> S] : k \in 0..n}

-----------------------------------------------------------------------------
(* tools.ts: the capability registry *)

SeedNames ==
    <<"check_shipment_status", "send_customer_whatsapp",
      "send_email_notification", "escalate_to_operator">>

SeedNameSet == {SeedNames[i] : i \in 1..Len(SeedNames)}

SeedTool(n) == [name |-> n, handler |-> "seed", isDynamic |-> FALSE]

IndexOf(reg, n) ==
    IF \E i \in 1..Len(reg) : reg[i].name = n
    THEN CHOOSE i \in 1..Len(reg) : reg[i].name = n
    ELSE 0

\* registry.get(name); undefined is the record with handler "undefined"
Undefined == [name |-> "", handler |-> "undefined", isDynamic |-> FALSE]

getTool(reg, n) == IF IndexOf(reg, n) = 0 THEN Undefined ELSE reg[IndexOf(reg, n)]

getAllTools(reg) == reg

getDynamicTools(reg) == SelectSeq(reg, LAMBDA t : t.isDynamic)

\* a registry that kept every registration as an entry of its own
registerToolAppend(reg, tool) == Append(reg, tool)

\* registry.set(tool.name, tool): a Map keeps one entry per key, at the
\* position of its first insertion
registerTool(reg, tool) ==
    IF IndexOf(reg, tool.name) = 0
    THEN Append(reg, tool)
    ELSE [reg EXCEPT ![IndexOf(reg, tool.name)] = tool]

\* an iteration that steps over the entry following a deleted one
RECURSIVE ClearFromSkipping(_, _)
ClearFromSkipping(reg, i) ==
    IF i > Len(reg) THEN reg
    ELSE IF reg[i].isDynamic THEN ClearFromSkipping(RemoveAt(reg, i), i + 1)
    ELSE ClearFromSkipping(reg, i + 1)

RECURSIVE ClearFrom(_, _)
ClearFrom(reg, i) ==
    IF i > Len(reg) THEN reg
    ELSE IF reg[i].isDynamic THEN ClearFrom(RemoveAt(reg, i), i)
    ELSE ClearFrom(reg, i + 1)

\* for (const [name, tool] of registry) if (tool.isDynamic) registry.delete(name)
clearDynamicTools(reg) == ClearFrom(reg, 1)

RECURSIVE seedFrom(_, _)
seedFrom(reg, i) ==
    IF i > Len(SeedNames) THEN reg
    ELSE seedFrom(registerTool(reg, SeedTool(SeedNames[i])), i + 1)

\* seedTools(), run once on import
seedTools == seedFrom(<<>>, 1)

\* buildHandler: new Function(...) throws a SyntaxError on source that does
\* not compile
buildHandlerThrows(code) == code = "syntax"

-----------------------------------------------------------------------------
(* vapi.ts: the profile held by the provider *)

\* the assistant as createAssistant leaves it
InitialProfile ==
    [model |-> [provider |-> "anthropic", messages |-> "prompt0"],
     voice |-> [provider |-> "11labs"],
     firstMessage |-> "greeting0",
     serverUrl |-> "srv"]

\* baseline.ts
BASELINE ==
    [systemMessage |-> "baseline prompt",
     maxTokens |-> 250,
     voiceSpeed |-> 100,
     firstMessage |-> "Hello, this is Ruya Logistics.",
     silenceTimeoutSeconds |-> 10,
     toolIds |-> <<>>,
     messagePlan |-> [idleMessages |-> <<>>, idleTimeoutSeconds |-> 10,
                      idleMessageMaxSpokenCount |-> 0]]

\* getAssistant: model.messages.find(role = system)?.content || ""
extractSystemMessage(p) ==
    IF Has(p, "model") /\ Has(p.model, "messages") THEN p.model.messages ELSE ""

getAssistant(p) == [systemMessage |-> extractSystemMessage(p), config |-> p]

\* updateAssistant, lines 550-555: the model-level part of the changes
modelPatchOf(changes) ==
    Merge(Merge(IF Has(changes, "systemMessage")
                THEN [messages |-> changes.systemMessage] ELSE EmptyObj,
                IF Has(changes, "maxTokens")
                THEN [maxTokens |-> changes.maxTokens] ELSE EmptyObj),
          IF Has(changes, "toolIds") THEN [toolIds |-> changes.toolIds] ELSE EmptyObj)

\* updateAssistant, lines 570-577: the fields written directly
PlainKeys == {"firstMessage", "silenceTimeoutSeconds", "maxDurationSeconds", "messagePlan"}

plainPatchOf(changes) ==
    [k \in (DOMAIN changes) \cap PlainKeys |-> changes[k]]

\* patch.model without the spread of the model read
patchModelBare(changes, live) ==
    IF DOMAIN modelPatchOf(changes) # {}
    THEN [model |-> modelPatchOf(changes)]
    ELSE EmptyObj

\* lines 556-560: patch.model, from the model read at that moment
patchModel(changes, live) ==
    IF DOMAIN modelPatchOf(changes) # {}
    THEN [model |-> Merge(IF Has(live, "model") THEN live.model ELSE EmptyObj,
                          modelPatchOf(changes))]
    ELSE EmptyObj

\* lines 563-567: patch.voice, from the voice read at that moment
patchVoice(changes, live) ==
    IF Has(changes, "voiceSpeed")
    THEN [voice |-> Merge(IF Has(live, "voice") THEN live.voice ELSE EmptyObj,
                          [speed |-> changes.voiceSpeed])]
    ELSE EmptyObj

\* the provider's PATCH /assistant/{id}: every top-level field of the body
\* replaces the stored one
applyPatch(p, patch) == Merge(p, patch)

-----------------------------------------------------------------------------
(* Inputs: what callers and the external services can hand to the program *)

CallIds == {"call-1"}

\* customerNumber; "" stands for undefined
Customers == {"", "+971500000000"}

\* handlerCode is the source text: one that compiles, one that does not
ToolSpecs ==
    {[name |-> "lookup_rate", handlerCode |-> "valid"],
     [name |-> "track_vessel", handlerCode |-> "valid"],
     [name |-> "broken_tool", handlerCode |-> "syntax"]}

\* steps is the number of HTTP steps of the workflow; the first is the
\* example the reasoning prompt itself gives (line 515)
WorkflowSpecs ==
    {[name |-> "Send Customer WhatsApp", webhookPath |-> "send-customer-whatsapp",
      steps |-> 1],
     [name |-> "Empty", webhookPath |-> "notify-ops", steps |-> 0]}

\* analysis.newTools: up to MaxTools capabilities of different names, or the
\* same capability asked for twice
ToolLists ==
    {q \in SeqsUpTo(ToolSpecs, MaxTools) :
       \A i, j \in 1..Len(q) : i # j => q[i].name # q[j].name}
      \cup {<<[name |-> "lookup_rate", handlerCode |-> "valid"],
               [name |-> "lookup_rate", handlerCode |-> "valid"]>>}

WorkflowLists == {<<>>} \cup {<<wf>> : wf \in WorkflowSpecs}

RequestLists == {<<>>, <<"need credentials">>}

\* process.env: VAPI_ASSISTANT_ID and SERVER_URL set, N8N_API_URL and
\* N8N_API_KEY set
Envs ==
    {[vapiSync |-> TRUE, n8n |-> TRUE], [vapiSync |-> TRUE, n8n |-> FALSE],
     [vapiSync |-> FALSE, n8n |-> TRUE]}

\* wf.webhookPath.replace(/-/g, "_") on the paths above
toolNameOf(path) ==
    CASE path = "send-customer-whatsapp" -> "send_customer_whatsapp"
      [] path = "notify-ops" -> "notify_ops"
      [] OTHER -> path

ConfigChoices ==
    {EmptyObj, [systemMessage |-> "prompt1"], [maxTokens |-> 500, voiceSpeed |-> 85]}

\* a decoded value that satisfies the output contract
WellFormed ==
    {[failures |-> <<"f1">>, changes |-> <<"c1">>, configChanges |-> c,
      newTools |-> nt, newWorkflows |-> nw, resourceRequests |-> rr] :
        c \in ConfigChoices, nt \in ToolLists,
        nw \in WorkflowLists, rr \in RequestLists}

\* decoded values that do not: null, {}, an object without "changes", an
\* object without "configChanges"
Malformed ==
    {[jsonNull |-> TRUE], EmptyObj, [failures |-> <<"f1">>],
     [failures |-> <<"f1">>, changes |-> <<"c1">>]}

\* what client.messages.create can do: reject, or answer with a text that
\* JSON.parse rejects ("garbage") or decodes to a value
ReasoningOutcomes ==
    {[kind |-> "throw"], [kind |-> "garbage"]}
        \cup {[kind |-> "json", value |-> v] : v \in WellFormed \cup Malformed}

\* analysis.<list>?.length, and the lists the loops iterate
ListOf(a, k) == IF Has(a, k) THEN a[k] ELSE <<>>

-----------------------------------------------------------------------------
(* self-improve.ts: analyzeTranscriptWithRaw, lines 549-567 *)

\* a fallback that forgot the current instructions
parseFallbackBlankPrompt(currentPrompt) ==
    [failures |-> <<"Could not parse analysis output">>,
     changes |-> <<"No changes made - parse error">>,
     configChanges |-> [systemMessage |-> ""]]

parseFallback(currentPrompt) ==
    [failures |-> <<"Could not parse analysis output">>,
     changes |-> <<"No changes made - parse error">>,
     configChanges |-> [systemMessage |-> currentPrompt]]

\* the value analyzeTranscriptWithRaw resolves to, given the service's answer
analyzeTranscriptWithRaw(out, currentPrompt) ==
    IF out.kind = "json"
    THEN [parsed |-> out.value, raw |-> "json"]
    ELSE [parsed |-> parseFallback(currentPrompt), raw |-> "garbage"]

-----------------------------------------------------------------------------
(* The asynchronous calls in flight.  A world w = [s, reg, hist] is the     *)
(* calling task's locals together with the two process-wide stores that     *)
(* synchronous code can touch.                                              *)

IdleTask ==
    [kind |-> "idle", pc |-> "idle", result |-> "none", rid |-> 0,
     callId |-> "", customerNumber |-> "", log |-> <<>>,
     assistant |-> EmptyObj, analysis |-> EmptyObj, raw |-> "",
     ua |-> EmptyObj, crt |-> EmptyObj, ti |-> 0, wi |-> 0, ri |-> 0,
     toolsCreated |-> <<>>, workflowsCreated |-> <<>>, rec |-> EmptyObj,
     hist0 |-> 0, pushed |-> 0, patches |-> 0, calls |-> 0,
     failed |-> <<>>, error |-> "", reg0 |-> <<>>, prof0 |-> EmptyObj,
     reports |-> 0, caller |-> "", rejection |-> "none", req |-> EmptyObj,
     http |-> 0, body |-> "none", spawned |-> 0, results |-> <<>>,
     workflow |-> EmptyObj, attached |-> <<>>]

\* the error e leaves the async function: its promise rejects with e
Throw(w, e) == [w EXCEPT !.s.pc = "done", !.s.result = "threw", !.s.error = e]

Return(w) == [w EXCEPT !.s.pc = "done", !.s.result = "returned"]

Await(w, pc) == [w EXCEPT !.s.pc = pc]

\* a logStep whose record holds a copy of the log taken when the record was
\* built
logStepOnCopy(w, step, status, item) ==
    [w EXCEPT !.s.log = Append(@, [step |-> step, status |-> status, item |-> item])]

\* logStep, lines 168-173.  Once the record exists its pipelineLog is this
\* same array, in the task's hands and in history.
logStep(w, step, status, item) ==
    LET entry == [step |-> step, status |-> status, item |-> item]
        log2 == Append(w.s.log, entry)
    IN [w EXCEPT
          !.s.log = log2,
          !.s.rec = IF Has(@, "rid") THEN [@ EXCEPT !.pipelineLog = log2] ELSE @,
          !.hist = [i \in 1..Len(@) |->
                      IF @[i].rid = w.s.rid THEN [@[i] EXCEPT !.pipelineLog = log2]
                      ELSE @[i]]]

RECURSIVE EnterToolItem(_, _), EnterWorkflowItem(_, _), createAndRegisterTool(_, _, _),
          OnCreateThrow(_), EnterWorkflows(_), EnterResources(_),
          ManualToolItem(_, _), ManualWorkflowItem(_, _)

\* lines 322-324: the verification read
EnterVerify(w) == Await(w, "verify")

\* lines 314-320
EnterResourceItem(w, i) ==
    IF i > Len(ListOf(w.s.analysis, "resourceRequests"))
    THEN EnterVerify(w)
    ELSE Await([w EXCEPT !.s.ri = i], "resource_notify")

EnterResources(w) == EnterResourceItem(w, 1)

\* lines 268-305: one turn of the loop over analysis.newWorkflows
EnterWorkflowItem(w, i) ==
    IF i > Len(w.s.analysis.newWorkflows)
    THEN EnterResources(w)
    ELSE LET wf == w.s.analysis.newWorkflows[i]
             w1 == [w EXCEPT !.s.wi = i]
         IN IF wf.steps = 0
            THEN EnterWorkflowItem(logStep(w1, "create_workflow", "skipped", wf.name), i + 1)
            ELSE Await(logStep(w1, "create_workflow", "ok", wf.name), "create_workflow")

\* lines 265-312
EnterWorkflows(w) ==
    LET n == Len(ListOf(w.s.analysis, "newWorkflows"))
    IN IF n > 0 /\ env.n8n
       THEN EnterWorkflowItem(w, 1)
       ELSE IF n > 0
       THEN LET w1 == logStep(w, "create_workflow", "error", "n8n not configured")
            IN EnterResources(
                 [w1 EXCEPT !.s.analysis =
                    Merge(@, [resourceRequests |->
                                Append(ListOf(@, "resourceRequests"), "need n8n")])])
       ELSE EnterResources(logStep(w, "create_workflow", "skipped", ""))

\* the catch clause around the createAndRegisterTool call that is in flight:
\* lines 257-259 (a tool of the change-set), 302-304 (the tool wired to a
\* workflow), 599-601 and 634-636 in analyzeFromTranscript; brain.ts has none
OnCreateThrow(w) ==
    CASE w.s.crt.ctx = "tool" ->
           EnterToolItem(logStep(w, "create_tool", "error", w.s.crt.spec.name),
                         w.s.ti + 1)
      [] w.s.crt.ctx = "wire" ->
           EnterWorkflowItem(
             logStep(w, "create_workflow", "error", w.s.analysis.newWorkflows[w.s.wi].name),
             w.s.wi + 1)
      [] w.s.crt.ctx = "mtool" -> ManualToolItem(w, w.s.ti + 1)
      [] w.s.crt.ctx = "mwire" -> ManualWorkflowItem(w, w.s.wi + 1)
      [] OTHER -> Throw(w, "createAndRegisterTool")

\* tools.ts lines 39-63: the synchronous head of createAndRegisterTool
createAndRegisterTool(w, spec, ctx) ==
    LET w1 == [w EXCEPT !.s.crt = [spec |-> spec, ctx |-> ctx]]
    IN IF buildHandlerThrows(spec.handlerCode)
       THEN OnCreateThrow(w1)
       ELSE Await(
              [w1 EXCEPT !.reg = registerTool(@, [name |-> spec.name,
                                                  handler |-> spec.handlerCode,
                                                  isDynamic |-> TRUE])],
              IF env.vapiSync THEN "crt_vapi_tool" ELSE "crt_notify")

\* a record stored in the place of the newest one
ManualPersistOverwrite(w) ==
    LET a == w.s.analysis
        rec == [rid |-> w.s.rid, callId |-> "manual",
                customerNumber |-> w.s.customerNumber,
                failures |-> a.failures, changes |-> a.changes,
                toolsCreated |-> w.s.toolsCreated,
                workflowsCreated |-> w.s.workflowsCreated,
                configBefore |-> w.s.assistant.config,
                configAfter |-> a.configChanges,
                callbackTriggered |-> FALSE,
                rawAnalysis |-> w.s.raw,
                pipelineLog |-> <<>>]
    IN Await([w EXCEPT !.s.rec = rec,
                       !.hist = IF @ = <<>> THEN <<rec>> ELSE [@ EXCEPT ![Len(@)] = rec],
                       !.s.pushed = @ + 1],
             "m_notify_summary")

\* analyzeFromTranscript, lines 647-676: the record is built and pushed, the
\* change-set is printed, then the summary is sent; forEach on a list that
\* is undefined is a TypeError
ManualPersist(w) ==
    LET a == w.s.analysis
        rec == [rid |-> w.s.rid, callId |-> "manual",
                customerNumber |-> w.s.customerNumber,
                failures |-> IF Has(a, "failures") THEN a.failures ELSE "undefined",
                changes |-> IF Has(a, "changes") THEN a.changes ELSE "undefined",
                toolsCreated |-> w.s.toolsCreated,
                workflowsCreated |-> w.s.workflowsCreated,
                configBefore |-> w.s.assistant.config,
                configAfter |-> a.configChanges,
                callbackTriggered |-> FALSE,
                rawAnalysis |-> w.s.raw,
                pipelineLog |-> <<>>]
        w1 == [w EXCEPT !.s.rec = rec, !.hist = Append(@, rec), !.s.pushed = @ + 1]
    IN IF Has(a, "failures") /\ Has(a, "changes")
       THEN Await(w1, "m_notify_summary")
       ELSE Throw(w1, "TypeError")

\* lines 641-645
ManualResourceItem(w, i) ==
    IF i > Len(ListOf(w.s.analysis, "resourceRequests"))
    THEN ManualPersist(w)
    ELSE Await([w EXCEPT !.s.ri = i], "m_resource_notify")

\* lines 608-637: one turn of the loop over analysis.newWorkflows
ManualWorkflowItem(w, i) ==
    IF i > Len(w.s.analysis.newWorkflows)
    THEN ManualResourceItem(w, 1)
    ELSE IF w.s.analysis.newWorkflows[i].steps = 0
    THEN ManualWorkflowItem([w EXCEPT !.s.wi = i], i + 1)
    ELSE Await([w EXCEPT !.s.wi = i], "m_create_workflow")

\* lines 606-638
ManualWorkflows(w) ==
    IF Len(ListOf(w.s.analysis, "newWorkflows")) > 0 /\ env.n8n
    THEN ManualWorkflowItem(w, 1)
    ELSE ManualResourceItem(w, 1)

\* lines 595-602: one turn of the loop over analysis.newTools
ManualToolItem(w, i) ==
    IF i > Len(w.s.analysis.newTools)
    THEN ManualWorkflows(w)
    ELSE createAndRegisterTool([w EXCEPT !.s.ti = i], w.s.analysis.newTools[i], "mtool")

\* lines 593-603
ManualTools(w) ==
    IF Len(ListOf(w.s.analysis, "newTools")) > 0
    THEN ManualToolItem(w, 1)
    ELSE ManualWorkflows(w)

\* the loop turn with toolsCreated.push moved before the creation
EnterToolItemPushFirst(w, i) ==
    IF i > Len(w.s.analysis.newTools)
    THEN EnterWorkflows(w)
    ELSE LET spec == w.s.analysis.newTools[i]
         IN createAndRegisterTool(
              logStep([w EXCEPT !.s.ti = i, !.s.toolsCreated = Append(@, spec.name)],
                      "create_tool", "ok", spec.name),
              spec, "tool")

\* lines 241-260: one turn of the loop over analysis.newTools
EnterToolItem(w, i) ==
    IF i > Len(w.s.analysis.newTools)
    THEN EnterWorkflows(w)
    ELSE LET spec == w.s.analysis.newTools[i]
         IN createAndRegisterTool(
              logStep([w EXCEPT !.s.ti = i], "create_tool", "ok", spec.name),
              spec, "tool")

\* lines 238-263
EnterTools(w) ==
    IF Len(ListOf(w.s.analysis, "newTools")) > 0
    THEN EnterToolItem(w, 1)
    ELSE EnterWorkflows(logStep(w, "create_tool", "skipped", ""))

\* what the caller does once createAndRegisterTool has returned the tool:
\* lines 245-252, lines 300-301, lines 598 and 633, brain.ts line 110
OnCreateReturn(w) ==
    CASE w.s.crt.ctx = "tool" ->
           Await([w EXCEPT !.s.toolsCreated = Append(@, w.s.crt.spec.name)], "test_tool")
      [] w.s.crt.ctx = "wire" ->
           EnterWorkflowItem(
             logStep([w EXCEPT !.s.toolsCreated = Append(@, w.s.crt.spec.name)],
                     "wire_workflow_to_vapi", "ok", w.s.crt.spec.name),
             w.s.wi + 1)
      [] w.s.crt.ctx = "mtool" ->
           ManualToolItem([w EXCEPT !.s.toolsCreated = Append(@, w.s.crt.spec.name)],
                          w.s.ti + 1)
      [] w.s.crt.ctx = "mwire" ->
           ManualWorkflowItem([w EXCEPT !.s.toolsCreated = Append(@, w.s.crt.spec.name)],
                              w.s.wi + 1)
      [] OTHER -> Await(w, "brain_exec")

\* a clearHistory that leaves the records in place
clearHistoryKept(hist) == hist

\* self-improve.ts clearHistory: history.length = 0
clearHistory(hist) == <<>>

\* what the caller of updateAssistant does when it resolves: lines 233 and
\* 238 of the pipeline, lines 590-594 of analyzeFromTranscript, lines
\* 177-183 of resetToBaseline
OnUaReturn(w) ==
    CASE w.s.kind = "reset" ->
           Return([w EXCEPT !.reg = clearDynamicTools(@), !.hist = clearHistory(@)])
      [] w.s.kind = "update" -> Return(w)
      [] w.s.kind = "manual" -> ManualTools(w)
      [] OTHER -> EnterTools(logStep(w, "update_assistant", "ok", ""))

\* a reset that clears the registry and the history before its profile
\* write has succeeded
OnUaThrowCleared(w) ==
    CASE w.s.kind = "reset" ->
           Throw([w EXCEPT !.reg = clearDynamicTools(@), !.hist = clearHistory(@)],
                 "updateAssistant")
      [] w.s.kind \in {"update", "manual"} -> Throw(w, "updateAssistant")
      [] OTHER -> EnterTools(logStep(w, "update_assistant", "error", ""))

\* ... and when it rejects: lines 234-236; analyzeFromTranscript (line 590)
\* and resetToBaseline have no catch
OnUaThrow(w) ==
    CASE w.s.kind \in {"reset", "update", "manual"} -> Throw(w, "updateAssistant")
      [] OTHER -> EnterTools(logStep(w, "update_assistant", "error", ""))

\* updateAssistant without the early return on an empty patch
UaAfterVoiceAlways(w) ==
    Await([w EXCEPT !.s.ua.patch = Merge(@, plainPatchOf(w.s.ua.changes)),
                    !.s.patches = @ + 1], "ua_patch")

\* vapi.ts updateAssistant, lines 569-584
UaAfterVoice(w) ==
    LET patch == Merge(w.s.ua.patch, plainPatchOf(w.s.ua.changes))
    IN IF DOMAIN patch = {}
       THEN OnUaReturn(w)
       ELSE Await([w EXCEPT !.s.ua.patch = patch, !.s.patches = @ + 1], "ua_patch")

\* lines 562-567
UaAfterModel(w) ==
    IF Has(w.s.ua.changes, "voiceSpeed") THEN Await(w, "ua_get_voice") ELSE UaAfterVoice(w)

\* lines 542-560: the head of updateAssistant; reading a field of an
\* undefined changes object is a TypeError
updateAssistant(w, changes, defined) ==
    IF ~defined
    THEN OnUaThrow(w)
    ELSE LET w1 == [w EXCEPT !.s.ua = [changes |-> changes, patch |-> EmptyObj]]
         IN IF DOMAIN modelPatchOf(changes) # {}
            THEN Await(w1, "ua_get_model")
            ELSE UaAfterModel(w1)

\* the pipeline without history.push
PersistRecordSkipped(w) == Await(w, "notify_summary")

\* lines 332-360: the record is built and pushed, then the summary is sent
PersistRecord(w) ==
    LET a == w.s.analysis
        rec == [rid |-> w.s.rid, callId |-> w.s.callId,
                customerNumber |-> w.s.customerNumber,
                failures |-> a.failures, changes |-> a.changes,
                toolsCreated |-> w.s.toolsCreated,
                workflowsCreated |-> w.s.workflowsCreated,
                configBefore |-> w.s.assistant.config,
                configAfter |-> IF Has(a, "configChanges") THEN a.configChanges
                                ELSE "undefined",
                callbackTriggered |-> FALSE,
                rawAnalysis |-> w.s.raw,
                pipelineLog |-> w.s.log]
    IN Await([w EXCEPT !.s.rec = rec, !.hist = Append(@, rec), !.s.pushed = @ + 1],
             "notify_summary")

-----------------------------------------------------------------------------
(* Actions *)

World(t) == [s |-> task[t], reg |-> registry, hist |-> history, faults |-> faults]

\* an external call answers (TRUE) or fails (FALSE); it may fail only while
\* fewer than MaxFaults calls have failed
Outcomes(t) == IF faults < MaxFaults THEN BOOLEAN ELSE {TRUE}

Ext(t, ok) ==
    [World(t) EXCEPT !.faults = IF ok THEN @ ELSE @ + 1,
                     !.s.failed = IF ok THEN @ ELSE Append(@, task[t].pc)]

Commit(t, w) ==
    /\ task' = [task EXCEPT ![t] = w.s]
    /\ registry' = w.reg
    /\ history' = w.hist
    /\ faults' = w.faults

Free(t) == task[t].pc \in {"idle", "done"}

Quiet == \A u \in TaskIds : Free(u)

Fresh(t, kind) ==
    [s |-> [IdleTask EXCEPT !.kind = kind, !.rid = started + 1, !.hist0 = Len(history),
                            !.reg0 = registry, !.prof0 = profile],
     reg |-> registry, hist |-> history, faults |-> faults]

\* analyzeAndImprove is called: lines 175-192
StartImprove(t, callId, customer, limit) ==
    /\ Free(t) /\ started < limit
    /\ started' = started + 1
    /\ Commit(t, Await(logStep([Fresh(t, "improve") EXCEPT
                                  !.s.callId = callId, !.s.customerNumber = customer],
                               "fetch_transcript", "ok", ""),
                       "get_call"))
    /\ UNCHANGED <<profile, env, nextToolId>>

\* getCall answers, with a catch that logs and does not rethrow
GetCallSwallow(t) ==
    /\ task[t].pc = "get_call"
    /\ \E ok \in Outcomes(t) :
         Commit(t, Await(logStep(logStep(Ext(t, ok), "fetch_transcript",
                                         IF ok THEN "ok" ELSE "error", ""),
                                 "fetch_assistant", "ok", ""),
                         "get_assistant"))
    /\ UNCHANGED <<profile, env, started, nextToolId>>

\* getCall answers: lines 192-200
GetCall(t) ==
    /\ task[t].pc = "get_call"
    /\ \E ok \in Outcomes(t) :
         Commit(t, IF ok
                   THEN Await(logStep(logStep(Ext(t, ok), "fetch_transcript", "ok", ""),
                                      "fetch_assistant", "ok", ""),
                              "get_assistant")
                   ELSE Throw(logStep(Ext(t, ok), "fetch_transcript", "error", ""),
                              "getCall"))
    /\ UNCHANGED <<profile, env, started, nextToolId>>

\* getAssistant answers: lines 200-220
FetchAssistant(t) ==
    /\ task[t].pc = "get_assistant"
    /\ \E ok \in Outcomes(t) :
         Commit(t, IF ok
                   THEN LET w1 == [Ext(t, ok) EXCEPT !.s.assistant = getAssistant(profile)]
                            w2 == logStep(w1, "fetch_assistant", "ok", "")
                            w3 == logStep(w2, "check_tools", "ok", "")
                            w4 == logStep(w3, "transcript_preview", "ok", "")
                        IN Await(logStep(w4, "ai_analysis", "ok", ""), "analyze")
                   ELSE Throw(Ext(t, ok), "getAssistant"))
    /\ UNCHANGED <<profile, env, started, nextToolId>>

\* the reasoning service answers: lines 221-232
Analyze(t, outcomes) ==
    /\ task[t].pc = "analyze"
    /\ \E out \in outcomes :
         /\ out.kind = "throw" => FALSE \in Outcomes(t)
         /\ Commit(t,
           IF out.kind = "throw"
           THEN Throw(logStep(Ext(t, FALSE), "ai_analysis", "error", ""), "reasoning")
           ELSE LET r == analyzeTranscriptWithRaw(out, task[t].assistant.systemMessage)
                    a == r.parsed
                    w1 == [World(t) EXCEPT !.s.analysis = a, !.s.raw = r.raw]
                IN IF ~(Has(a, "failures") /\ Has(a, "changes"))
                   THEN Throw(logStep(w1, "ai_analysis", "error", ""), "TypeError")
                   ELSE updateAssistant(
                          logStep(logStep(w1, "ai_analysis", "ok", ""),
                                  "update_assistant", "ok", ""),
                          IF Has(a, "configChanges") THEN a.configChanges ELSE EmptyObj,
                          Has(a, "configChanges")))
    /\ UNCHANGED <<profile, env, started, nextToolId>>

\* updateAssistant's read of the live model answers: lines 557-560
UaGetModel(t) ==
    /\ task[t].pc = "ua_get_model"
    /\ \E ok \in Outcomes(t) :
         Commit(t, IF ok
                   THEN UaAfterModel(
                          [Ext(t, ok) EXCEPT !.s.ua.patch =
                             patchModel(task[t].ua.changes, profile)])
                   ELSE OnUaThrow(Ext(t, ok)))
    /\ UNCHANGED <<profile, env, started, nextToolId>>

\* the read of the live voice with a failure swallowed: the rest of the
\* patch is sent
UaGetVoiceLenient(t) ==
    /\ task[t].pc = "ua_get_voice"
    /\ \E ok \in Outcomes(t) :
         Commit(t, UaAfterVoice(
                     [Ext(t, ok) EXCEPT !.s.ua.patch =
                        IF ok THEN Merge(@, patchVoice(task[t].ua.changes, profile))
                        ELSE @]))
    /\ UNCHANGED <<profile, env, started, nextToolId>>

\* updateAssistant's read of the live voice answers: lines 563-567
UaGetVoice(t) ==
    /\ task[t].pc = "ua_get_voice"
    /\ \E ok \in Outcomes(t) :
         Commit(t, IF ok
                   THEN UaAfterVoice(
                          [Ext(t, ok) EXCEPT !.s.ua.patch =
                             Merge(@, patchVoice(task[t].ua.changes, profile))])
                   ELSE OnUaThrow(Ext(t, ok)))
    /\ UNCHANGED <<profile, env, started, nextToolId>>

\* updateAssistant's PATCH answers: line 584
UaPatch(t) ==
    /\ task[t].pc = "ua_patch"
    /\ \E ok \in Outcomes(t) :
         /\ profile' = IF ok THEN applyPatch(profile, task[t].ua.patch) ELSE profile
         /\ Commit(t, IF ok THEN OnUaReturn(Ext(t, ok)) ELSE OnUaThrow(Ext(t, ok)))
    /\ UNCHANGED <<env, started, nextToolId>>

\* createVapiTool answers: tools.ts lines 73-79
CrtVapiTool(t) ==
    /\ task[t].pc = "crt_vapi_tool"
    /\ \E ok \in Outcomes(t) :
         /\ nextToolId' = IF ok THEN nextToolId + 1 ELSE nextToolId
         /\ Commit(t, IF ok
                      THEN Await([Ext(t, ok) EXCEPT !.s.crt =
                                    Merge(@, [toolId |-> nextToolId])],
                                 "crt_attach_get")
                      ELSE Await(Ext(t, ok), "crt_notify"))
    /\ UNCHANGED <<profile, env, started>>

\* addToolToAssistant sending the new id alone, without the ids already
\* bound
CrtAttachGetAlone(t) ==
    /\ task[t].pc = "crt_attach_get"
    /\ \E ok \in Outcomes(t) :
         Commit(t, IF ok
                   THEN LET currentModel == IF Has(profile, "model") THEN profile.model
                                            ELSE EmptyObj
                        IN Await([Ext(t, ok) EXCEPT
                                    !.s.crt = Merge(@,
                                       [patch |-> [model |-> Merge(currentModel,
                                          [toolIds |-> <<task[t].crt.toolId>>])]]),
                                    !.s.patches = @ + 1],
                                 "crt_attach_patch")
                   ELSE Await(Ext(t, ok), "crt_notify"))
    /\ UNCHANGED <<profile, env, started, nextToolId>>

\* addToolToAssistant's read answers: vapi.ts lines 706-717
CrtAttachGet(t) ==
    /\ task[t].pc = "crt_attach_get"
    /\ \E ok \in Outcomes(t) :
         Commit(t, IF ok
                   THEN LET currentModel == IF Has(profile, "model") THEN profile.model
                                            ELSE EmptyObj
                            existingIds == ListOf(currentModel, "toolIds")
                        IN Await([Ext(t, ok) EXCEPT
                                    !.s.crt = Merge(@,
                                       [patch |-> [model |-> Merge(currentModel,
                                          [toolIds |-> Append(existingIds,
                                                              task[t].crt.toolId)])]]),
                                    !.s.patches = @ + 1],
                                 "crt_attach_patch")
                   ELSE Await(Ext(t, ok), "crt_notify"))
    /\ UNCHANGED <<profile, env, started, nextToolId>>

\* addToolToAssistant's PATCH answers: vapi.ts lines 715-717, tools.ts 77-84
CrtAttachPatch(t) ==
    /\ task[t].pc = "crt_attach_patch"
    /\ \E ok \in Outcomes(t) :
         /\ profile' = IF ok THEN applyPatch(profile, task[t].crt.patch) ELSE profile
         /\ Commit(t, Await([Ext(t, ok) EXCEPT !.s.attached =
                                IF ok THEN Append(@, task[t].crt.toolId) ELSE @],
                             "crt_notify"))
    /\ UNCHANGED <<env, started, nextToolId>>

\* notifyOperator("New tool created") answers: tools.ts lines 82-86.  It
\* rejects when the fetch inside sendWhatsApp does (integrations.ts 198-214)
CrtNotify(t) ==
    /\ task[t].pc = "crt_notify"
    /\ \E ok \in Outcomes(t) :
         Commit(t, IF ok THEN OnCreateReturn(Ext(t, ok)) ELSE OnCreateThrow(Ext(t, ok)))
    /\ UNCHANGED <<profile, env, started, nextToolId>>

\* a smoke test whose failure takes the capability back
TestToolRollback(t) ==
    /\ task[t].pc = "test_tool"
    /\ \E ok \in Outcomes(t) :
         LET name == task[t].crt.spec.name
             w1 == logStep(Ext(t, ok), "test_tool", IF ok THEN "ok" ELSE "error", name)
             w2 == IF ok THEN w1
                   ELSE [w1 EXCEPT
                           !.reg = SelectSeq(@, LAMBDA e : e.name # name),
                           !.s.toolsCreated = SelectSeq(@, LAMBDA n : n # name)]
         IN Commit(t, EnterToolItem(w2, task[t].ti + 1))
    /\ UNCHANGED <<profile, env, started, nextToolId>>

\* the smoke test's handler call answers: lines 247-256
TestTool(t) ==
    /\ task[t].pc = "test_tool"
    /\ \E ok \in Outcomes(t) :
         Commit(t, EnterToolItem(
                     logStep(Ext(t, ok), "test_tool", IF ok THEN "ok" ELSE "error",
                             task[t].crt.spec.name),
                     task[t].ti + 1))
    /\ UNCHANGED <<profile, env, started, nextToolId>>

\* createCustomWorkflow answers: lines 276-299
CreateWorkflow(t) ==
    /\ task[t].pc = "create_workflow"
    /\ \E ok \in Outcomes(t) :
         LET wf == task[t].analysis.newWorkflows[task[t].wi]
             toolName == toolNameOf(wf.webhookPath)
         IN Commit(t,
              IF ok
              THEN LET w1 == logStep([Ext(t, ok) EXCEPT
                                        !.s.workflowsCreated = Append(@, wf.webhookPath)],
                                     "create_workflow", "ok", wf.name)
                       w2 == logStep(w1, "wire_workflow_to_vapi", "ok", toolName)
                   IN createAndRegisterTool(
                        w2, [name |-> toolName, handlerCode |-> "valid"], "wire")
              ELSE EnterWorkflowItem(
                     logStep(Ext(t, ok), "create_workflow", "error", wf.name),
                     task[t].wi + 1))
    /\ UNCHANGED <<profile, env, started, nextToolId>>

\* a resource request notified again after a failed notification
ResourceNotifyRetry(t) ==
    /\ task[t].pc = "resource_notify"
    /\ \E ok \in Outcomes(t) :
         Commit(t, IF ok
                   THEN EnterResourceItem(
                          logStep(Ext(t, ok), "resource_request", "ok", ""),
                          task[t].ri + 1)
                   ELSE Await(Ext(t, ok), "resource_notify"))
    /\ UNCHANGED <<profile, env, started, nextToolId>>

\* notifyOperator("RESOURCE REQUEST") answers: lines 316-319
ResourceNotify(t) ==
    /\ task[t].pc = "resource_notify"
    /\ \E ok \in Outcomes(t) :
         Commit(t, IF ok
                   THEN EnterResourceItem(
                          logStep(Ext(t, ok), "resource_request", "ok", ""),
                          task[t].ri + 1)
                   ELSE Throw(Ext(t, ok), "notifyOperator"))
    /\ UNCHANGED <<profile, env, started, nextToolId>>

\* the verification read answers: lines 323-347
Verify(t) ==
    /\ task[t].pc = "verify"
    /\ \E ok \in Outcomes(t) :
         Commit(t, PersistRecord(
                     logStep(Ext(t, ok), "verify_assistant",
                             IF ok THEN "ok" ELSE "error", "")))
    /\ UNCHANGED <<profile, env, started, nextToolId>>

\* notifyOperator(summary) answers: lines 350-365, 375-380
NotifySummary(t) ==
    /\ task[t].pc = "notify_summary"
    /\ \E ok \in Outcomes(t) :
         Commit(t, IF ~ok THEN Throw(Ext(t, ok), "notifyOperator")
                   ELSE IF task[t].customerNumber # ""
                   THEN Await(logStep(Ext(t, ok), "callback", "ok", ""), "settle")
                   ELSE Return(logStep(Ext(t, ok), "callback", "skipped", "")))
    /\ UNCHANGED <<profile, env, started, nextToolId>>

\* the 3000 ms timer fires and the outbound call is requested: lines 365-368
Settle(t) ==
    /\ task[t].pc = "settle"
    /\ Commit(t, Await([World(t) EXCEPT !.s.calls = @ + 1], "callback"))
    /\ UNCHANGED <<profile, env, started, nextToolId>>

\* the record flagged before the outbound call has answered
CallbackFlagFirst(t) ==
    /\ task[t].pc = "callback"
    /\ \E ok \in Outcomes(t) :
         LET w1 == [Ext(t, ok) EXCEPT
                      !.s.rec.callbackTriggered = TRUE,
                      !.hist = [i \in 1..Len(@) |->
                                  IF @[i].rid = task[t].rid
                                  THEN [@[i] EXCEPT !.callbackTriggered = TRUE]
                                  ELSE @[i]]]
         IN Commit(t,
              IF ok THEN Return(logStep(w1, "callback", "ok", ""))
              ELSE Await(logStep(w1, "callback", "error", ""), "callback_notify"))
    /\ UNCHANGED <<profile, env, started, nextToolId>>

\* createOutboundCall answers: lines 368-374
Callback(t) ==
    /\ task[t].pc = "callback"
    /\ \E ok \in Outcomes(t) :
         Commit(t,
           IF ok
           THEN LET w1 == [Ext(t, ok) EXCEPT
                             !.s.rec.callbackTriggered = TRUE,
                             !.hist = [i \in 1..Len(@) |->
                                         IF @[i].rid = task[t].rid
                                         THEN [@[i] EXCEPT !.callbackTriggered = TRUE]
                                         ELSE @[i]]]
                IN Return(logStep(w1, "callback", "ok", ""))
           ELSE Await(logStep(Ext(t, ok), "callback", "error", ""), "callback_notify"))
    /\ UNCHANGED <<profile, env, started, nextToolId>>

\* a failed outbound call tried again once the operator has been told
CallbackNotifyRetry(t) ==
    /\ task[t].pc = "callback_notify"
    /\ \E ok \in Outcomes(t) :
         Commit(t, IF ok THEN Await([Ext(t, ok) EXCEPT !.s.reports = @ + 1], "settle")
                   ELSE Throw(Ext(t, ok), "notifyOperator"))
    /\ UNCHANGED <<profile, env, started, nextToolId>>

\* notifyOperator("Failed to call customer back") answers: lines 373-380
CallbackNotify(t) ==
    /\ task[t].pc = "callback_notify"
    /\ \E ok \in Outcomes(t) :
         Commit(t, IF ok THEN Return([Ext(t, ok) EXCEPT !.s.reports = @ + 1])
                   ELSE Throw(Ext(t, ok), "notifyOperator"))
    /\ UNCHANGED <<profile, env, started, nextToolId>>

\* resetToBaseline is called: baseline.ts lines 170-174
StartReset(t, limit) ==
    /\ Free(t) /\ started < limit
    /\ started' = started + 1
    /\ Commit(t, updateAssistant(Fresh(t, "reset"), BASELINE, TRUE))
    /\ UNCHANGED <<profile, env, nextToolId>>

\* the brain decided create_tool: brain.ts lines 102-107
StartBrain(t, spec, limit) ==
    /\ Free(t) /\ started < limit
    /\ started' = started + 1
    /\ Commit(t, createAndRegisterTool(Fresh(t, "brain"), spec, "brain"))
    /\ UNCHANGED <<profile, env, nextToolId>>

\* res.status(status).json(body), after which the handler returns
Respond(w, status, body) == [Return(w) EXCEPT !.s.http = status, !.s.body = body]

\* server.ts lines 34-67: one turn of the loop over toolCallList, and the
\* answer once the list is done
TcItem(w, i) ==
    IF i > Len(w.s.req.toolCallList)
    THEN Respond(w, 200, "results")
    ELSE Await([w EXCEPT !.s.ti = i],
               IF getTool(w.reg, w.s.req.toolCallList[i]) # Undefined
               THEN "tc_handler" ELSE "tc_decide")

\* what the caller of decide does with its result: server.ts lines 60-63;
\* a direct caller gets the result
OnDecideReturn(w) ==
    IF w.s.kind = "toolcalls"
    THEN TcItem([w EXCEPT !.s.results =
                   Append(@, [name |-> w.s.req.toolCallList[w.s.ti], result |-> "text"])],
                w.s.ti + 1)
    ELSE Return(w)

\* the new tool's handler answers: brain.ts lines 110-113
BrainExec(t) ==
    /\ task[t].pc = "brain_exec"
    /\ \E ok \in Outcomes(t) :
         Commit(t, IF ok THEN OnDecideReturn(Ext(t, ok)) ELSE Throw(Ext(t, ok), "handler"))
    /\ UNCHANGED <<profile, env, started, nextToolId>>

\* POST /vapi/tool-calls arrives: server.ts lines 24-40
StartToolCalls(h, payload, limit) ==
    /\ Free(h) /\ started < limit
    /\ started' = started + 1
    /\ LET w == [Fresh(h, "toolcalls") EXCEPT !.s.req = payload]
       IN Commit(h, IF payload.type # "tool-calls"
                    THEN Respond(w, 400, "error")
                    ELSE TcItem(w, 1))
    /\ UNCHANGED <<profile, env, nextToolId>>

\* the handler of a registered tool answers: server.ts lines 41-50
TcHandler(h) ==
    /\ task[h].pc = "tc_handler"
    /\ \E ok \in Outcomes(h) :
         Commit(h, TcItem([Ext(h, ok) EXCEPT !.s.results =
                             Append(@, [name |-> task[h].req.toolCallList[task[h].ti],
                                        result |-> IF ok THEN "text"
                                                   ELSE "Error executing"])],
                          task[h].ti + 1))
    /\ UNCHANGED <<profile, env, started, nextToolId>>

\* what the brain's reasoning call can answer: a rejection, a text that does
\* not decode, or a decision
BrainDecisions ==
    {[kind |-> "throw"], [kind |-> "garbage"],
     [kind |-> "json", action |-> "respond"],
     [kind |-> "json", action |-> "escalate"],
     [kind |-> "json", action |-> "execute_tool", toolName |-> "check_shipment_status"],
     [kind |-> "json", action |-> "execute_tool", toolName |-> "never_seen"],
     [kind |-> "json", action |-> "create_tool"],
     [kind |-> "json", action |-> "create_tool",
      newTool |-> [name |-> "lookup_rate", handlerCode |-> "valid"]]}

\* decide, asked about a tool that is not registered: brain.ts lines 61-88
\* and executeDecision, lines 92-127, up to its first await
TcDecide(h) ==
    /\ task[h].pc = "tc_decide"
    /\ \E d \in BrainDecisions :
         /\ d.kind = "throw" => FALSE \in Outcomes(h)
         /\ Commit(h,
              CASE d.kind = "throw" -> Throw(Ext(h, FALSE), "reasoning")
                [] d.kind = "garbage" -> OnDecideReturn(World(h))
                [] d.action = "execute_tool" ->
                     IF getTool(registry, d.toolName) = Undefined
                     THEN OnDecideReturn(World(h))
                     ELSE Await(World(h), "brain_tool")
                [] d.action = "create_tool" ->
                     IF ~Has(d, "newTool")
                     THEN OnDecideReturn(World(h))
                     ELSE createAndRegisterTool(World(h), d.newTool, "brain")
                [] d.action = "escalate" -> Await(World(h), "brain_escalate")
                [] OTHER -> OnDecideReturn(World(h)))
    /\ UNCHANGED <<profile, env, started, nextToolId>>

\* execute_tool: the handler answers: brain.ts line 99
BrainTool(h) ==
    /\ task[h].pc = "brain_tool"
    /\ \E ok \in Outcomes(h) :
         Commit(h, IF ok THEN OnDecideReturn(Ext(h, ok)) ELSE Throw(Ext(h, ok), "handler"))
    /\ UNCHANGED <<profile, env, started, nextToolId>>

\* escalate: notifyOperator answers: brain.ts lines 116-120
BrainEscalate(h) ==
    /\ task[h].pc = "brain_escalate"
    /\ \E ok \in Outcomes(h) :
         Commit(h, IF ok THEN OnDecideReturn(Ext(h, ok))
                   ELSE Throw(Ext(h, ok), "notifyOperator"))
    /\ UNCHANGED <<profile, env, started, nextToolId>>

\* a trigger list that also holds the ending the assistant itself chose
BadEndingsAndHangup ==
    {"customer-ended-call", "customer-did-not-answer", "customer-busy",
     "assistant-ended-call"}

\* server.ts lines 90-94
BadEndings == {"customer-ended-call", "customer-did-not-answer", "customer-busy"}

\* endedReason values the provider reports; "" stands for undefined
EndReasons ==
    BadEndings \cup {"assistant-ended-call", "silence-timed-out", ""}

\* bodies of POST /vapi/server-message; assistantId is the id of the report
\* or else VAPI_ASSISTANT_ID, "" when neither is set: a message of another
\* type, reports with every end reason, and reports of a bad ending that
\* lack the call id or the assistant id
ServerMessages ==
    {[type |-> "status-update", endedReason |-> "customer-busy", callId |-> "call-1",
      assistantId |-> "asst-1", customer |-> ""],
     [type |-> "end-of-call-report", endedReason |-> "customer-ended-call",
      callId |-> "", assistantId |-> "asst-1", customer |-> ""],
     [type |-> "end-of-call-report", endedReason |-> "customer-ended-call",
      callId |-> "call-1", assistantId |-> "", customer |-> ""]}
      \cup [type : {"end-of-call-report"}, endedReason : EndReasons,
            callId : {"call-1"}, assistantId : {"asst-1"}, customer : Customers]

\* POST /vapi/server-message: the handler awaits nothing, so it is one step.
\* The run it starts gets as far as its first await, getCall; caller tells
\* what is attached to the run's promise.
ServerMessageWith(h, t, msg, limit, caller) ==
    LET shouldImprove == msg.endedReason # "" /\ msg.endedReason \in BadEndings
        starts == /\ msg.type = "end-of-call-report"
                  /\ msg.callId # "" /\ msg.assistantId # "" /\ shouldImprove
        run == Await(logStep([Fresh(t, "improve") EXCEPT
                                !.s.callId = msg.callId,
                                !.s.customerNumber = msg.customer,
                                !.s.caller = caller, !.s.req = msg],
                             "fetch_transcript", "ok", ""),
                     "get_call")
        ack == Respond([Fresh(h, "webhook") EXCEPT
                          !.s.rid = 0, !.s.req = msg,
                          !.s.spawned = IF starts THEN started + 1 ELSE 0],
                       200, "ok")
    IN /\ Free(h) /\ started < limit
       /\ starts => Free(t)
       /\ started' = started + 1
       /\ task' = [task EXCEPT ![h] = ack.s, ![t] = IF starts THEN run.s ELSE @]
       /\ UNCHANGED <<registry, history, profile, env, nextToolId, faults>>

\* a run started with nothing attached to its promise
ServerMessageDetached(h, t, msg, limit) == ServerMessageWith(h, t, msg, limit, "detached")

\* lines 72-113, with .catch attached to the run: lines 103-105
ServerMessage(h, t, msg, limit) == ServerMessageWith(h, t, msg, limit, "webhook")

\* the promise of a run that threw is rejected: the handler attached at
\* lines 103-105 prints the error; with none attached the rejection is
\* unhandled
PipelineRejected(t) ==
    /\ task[t].kind = "improve" /\ task[t].pc = "done"
    /\ task[t].result = "threw" /\ task[t].rejection = "none"
    /\ task' = [task EXCEPT ![t].rejection =
                  IF task[t].caller = "webhook" THEN "caught" ELSE "unhandled"]
    /\ UNCHANGED <<registry, history, profile, env, started, nextToolId, faults>>

\* what the backend does with a request of the front end: it answers, it
\* answers with an error status, or it cannot be reached
BackendAnswers == {"ok", "error", "reject"}

\* GET /api/demo/state: state/route.ts lines 3-16
StartStateRoute(h, urlSet, limit) ==
    /\ Free(h) /\ started < limit
    /\ started' = started + 1
    /\ Commit(h, IF ~urlSet
                 THEN Respond(Fresh(h, "state_route"), 500, "error")
                 ELSE Await(Fresh(h, "state_route"), "sr_fetch"))
    /\ UNCHANGED <<profile, env, nextToolId>>

\* the backend's /state answers: state/route.ts lines 18-33
StateRouteFetch(h) ==
    /\ task[h].pc = "sr_fetch"
    /\ \E ans \in BackendAnswers :
         /\ ans # "ok" => FALSE \in Outcomes(h)
         /\ LET w == [Ext(h, ans = "ok") EXCEPT !.s.req = [state |-> ans]]
            IN Commit(h, CASE ans = "reject" -> Respond(w, 502, "error")
                           [] ans = "error" -> Respond(w, 500, "error")
                           [] OTHER -> Respond(w, 200, "data"))
    /\ UNCHANGED <<profile, env, started, nextToolId>>

\* GET /api/demo/improvements: lines 433-454
StartImprovementsRoute(h, urlSet, limit) ==
    /\ Free(h) /\ started < limit
    /\ started' = started + 1
    /\ Commit(h, IF ~urlSet
                 THEN Respond([Fresh(h, "improvements_route") EXCEPT !.s.results =
                                 [improvements |-> "empty", dynamicTools |-> "empty"]],
                              200, "lists")
                 ELSE Await(Fresh(h, "improvements_route"), "ir_fetch"))
    /\ UNCHANGED <<profile, env, nextToolId>>

\* Promise.all of the backend's /improvements/log and /health settles:
\* lines 447-476
ImprovementsRouteFetch(h) ==
    /\ task[h].pc = "ir_fetch"
    /\ \E log \in BackendAnswers, health \in BackendAnswers :
         /\ (log # "ok" \/ health # "ok") => FALSE \in Outcomes(h)
         /\ LET w == [Ext(h, log = "ok" /\ health = "ok") EXCEPT
                        !.s.req = [log |-> log, health |-> health]]
                lists == IF "reject" \in {log, health}
                         THEN [improvements |-> "empty", dynamicTools |-> "empty"]
                         ELSE [improvements |-> IF log = "ok" THEN "data" ELSE "empty",
                               dynamicTools |-> IF health = "ok" THEN "data" ELSE "empty"]
            IN Commit(h, Respond([w EXCEPT !.s.results = lists], 200, "lists"))
    /\ UNCHANGED <<profile, env, started, nextToolId>>

\* analyzeFromTranscript is called: lines 572-579
StartManual(t, customer, limit) ==
    /\ Free(t) /\ started < limit
    /\ started' = started + 1
    /\ Commit(t, Await([Fresh(t, "manual") EXCEPT
                          !.s.callId = "manual", !.s.customerNumber = customer],
                       "m_get_assistant"))
    /\ UNCHANGED <<profile, env, nextToolId>>

\* getAssistant answers: lines 579-587
ManualFetchAssistant(t) ==
    /\ task[t].pc = "m_get_assistant"
    /\ \E ok \in Outcomes(t) :
         Commit(t, IF ok
                   THEN Await([Ext(t, ok) EXCEPT !.s.assistant = getAssistant(profile)],
                              "m_analyze")
                   ELSE Throw(Ext(t, ok), "getAssistant"))
    /\ UNCHANGED <<profile, env, started, nextToolId>>

\* the reasoning service answers: lines 582-590
ManualAnalyze(t, outcomes) ==
    /\ task[t].pc = "m_analyze"
    /\ \E out \in outcomes :
         /\ out.kind = "throw" => FALSE \in Outcomes(t)
         /\ Commit(t,
           IF out.kind = "throw"
           THEN Throw(Ext(t, FALSE), "reasoning")
           ELSE LET r == analyzeTranscriptWithRaw(out, task[t].assistant.systemMessage)
                    a == r.parsed
                    w1 == [World(t) EXCEPT !.s.analysis = a, !.s.raw = r.raw]
                IN IF ~Has(a, "configChanges")
                   THEN Throw(w1, "TypeError")
                   ELSE updateAssistant(w1, a.configChanges, TRUE))
    /\ UNCHANGED <<profile, env, started, nextToolId>>

\* createCustomWorkflow answers: lines 611-632
ManualCreateWorkflow(t) ==
    /\ task[t].pc = "m_create_workflow"
    /\ \E ok \in Outcomes(t) :
         LET wf == task[t].analysis.newWorkflows[task[t].wi]
         IN Commit(t,
              IF ok
              THEN createAndRegisterTool(
                     [Ext(t, ok) EXCEPT !.s.workflowsCreated = Append(@, wf.webhookPath)],
                     [name |-> toolNameOf(wf.webhookPath), handlerCode |-> "valid"],
                     "mwire")
              ELSE ManualWorkflowItem(Ext(t, ok), task[t].wi + 1))
    /\ UNCHANGED <<profile, env, started, nextToolId>>

\* notifyOperator("RESOURCE REQUEST") answers: lines 642-644
ManualResourceNotify(t) ==
    /\ task[t].pc = "m_resource_notify"
    /\ \E ok \in Outcomes(t) :
         Commit(t, IF ok THEN ManualResourceItem(Ext(t, ok), task[t].ri + 1)
                   ELSE Throw(Ext(t, ok), "notifyOperator"))
    /\ UNCHANGED <<profile, env, started, nextToolId>>

\* notifyOperator(summary) answers: lines 669-680
ManualNotifySummary(t) ==
    /\ task[t].pc = "m_notify_summary"
    /\ \E ok \in Outcomes(t) :
         Commit(t, IF ~ok THEN Throw(Ext(t, ok), "notifyOperator")
                   ELSE IF task[t].customerNumber # ""
                   THEN Await(Ext(t, ok), "m_settle")
                   ELSE Return(Ext(t, ok)))
    /\ UNCHANGED <<profile, env, started, nextToolId>>

\* the 3000 ms timer fires and the outbound call is requested: lines 680-683
ManualSettle(t) ==
    /\ task[t].pc = "m_settle"
    /\ Commit(t, Await([World(t) EXCEPT !.s.calls = @ + 1], "m_callback"))
    /\ UNCHANGED <<profile, env, started, nextToolId>>

\* createOutboundCall answers: lines 683-691; the catch prints the error
ManualCallback(t) ==
    /\ task[t].pc = "m_callback"
    /\ \E ok \in Outcomes(t) :
         Commit(t,
           IF ok
           THEN Return([Ext(t, ok) EXCEPT
                          !.s.rec.callbackTriggered = TRUE,
                          !.hist = [i \in 1..Len(@) |->
                                      IF @[i].rid = task[t].rid
                                      THEN [@[i] EXCEPT !.callbackTriggered = TRUE]
                                      ELSE @[i]]])
           ELSE Return(Ext(t, ok)))
    /\ UNCHANGED <<profile, env, started, nextToolId>>

-----------------------------------------------------------------------------
(* Specifications *)

Init ==
    /\ registry = seedTools
    /\ history = <<>>
    /\ profile = InitialProfile
    /\ env \in Envs
    /\ task = [t \in TaskIds |-> IdleTask]
    /\ started = 0
    /\ nextToolId = 1
    /\ faults = 0

Step(t) ==
    \/ GetCall(t)
    \/ FetchAssistant(t)
    \/ UaGetModel(t)
    \/ UaGetVoice(t)
    \/ UaPatch(t)
    \/ CrtVapiTool(t)
    \/ CrtAttachGet(t)
    \/ CrtAttachPatch(t)
    \/ CrtNotify(t)
    \/ TestTool(t)
    \/ CreateWorkflow(t)
    \/ ResourceNotify(t)
    \/ Verify(t)
    \/ NotifySummary(t)
    \/ Settle(t)
    \/ Callback(t)
    \/ CallbackNotify(t)
    \/ BrainExec(t)

\* Spec: the first call the process receives, with every input and every
\* answer of the external services
Next ==
    \/ \E c \in CallIds, n \in Customers : StartImprove("a", c, n, 1)
    \/ StartReset("a", 1)
    \/ \E spec \in ToolSpecs : StartBrain("a", spec, 1)
    \/ Analyze("a", ReasoningOutcomes)
    \/ Step("a")

Spec == Init /\ [][Next]_vars

\* SpecLife: up to MaxRuns calls one after the other, each starting when
\* the one before has returned or thrown
LifeOutcomes ==
    {[kind |-> "garbage"]}
        \cup {[kind |-> "json",
                value |-> [failures |-> <<"f1">>, changes |-> <<"c1">>,
                           configChanges |-> [systemMessage |-> "prompt1"],
                           newTools |-> nt, newWorkflows |-> nw,
                           resourceRequests |-> <<>>]] :
                 nt \in {<<>>, <<[name |-> "lookup_rate", handlerCode |-> "valid"]>>},
                 nw \in {<<>>, <<[name |-> "Send Customer WhatsApp",
                                  webhookPath |-> "send-customer-whatsapp",
                                  steps |-> 1]>>}}

NextLife ==
    \/ Quiet /\ \E c \in CallIds, n \in Customers : StartImprove("a", c, n, MaxRuns)
    \/ Quiet /\ StartReset("a", MaxRuns)
    \/ Quiet /\ \E spec \in ToolSpecs : StartBrain("a", spec, MaxRuns)
    \/ Analyze("a", LifeOutcomes)
    \/ Step("a")

SpecLife == Init /\ [][NextLife]_vars

\* SpecApi: the exported functions of the registry and of the profile client
\* called directly, one call after the other, on any registry content and
\* any live profile

\* tools a registry can hold: seed and synthesized origin under any name
ApiTools ==
    [name : {"check_shipment_status", "send_customer_whatsapp", "lookup_rate",
             "track_vessel"},
     handler : {"valid"}, isDynamic : BOOLEAN]

\* longest registry the calls start from
MaxReg == 3

\* a Map holds one entry per key
RegistryInputs ==
    {q \in SeqsUpTo(ApiTools, MaxReg) :
       \A i, j \in 1..Len(q) : i # j => q[i].name # q[j].name}

\* live profiles: the one createAssistant leaves, one with more fields set,
\* one with neither model nor voice
ProfileInputs ==
    {InitialProfile,
     [name |-> "Ruya", serverUrl |-> "srv", firstMessage |-> "greeting0",
      silenceTimeoutSeconds |-> 30, maxDurationSeconds |-> 600,
      messagePlan |-> [idleMessages |-> <<"Are you still there?">>,
                       idleTimeoutSeconds |-> 10, idleMessageMaxSpokenCount |-> 3],
      model |-> [provider |-> "anthropic", model |-> "claude", messages |-> "prompt0",
                 maxTokens |-> 250, temperature |-> 7, toolIds |-> <<7>>],
      voice |-> [provider |-> "11labs", voiceId |-> "v1", speed |-> 100]],
     [name |-> "bare"]}

\* the changes argument of updateAssistant
UpdateInputs ==
    {EmptyObj, [maxTokens |-> 500], [systemMessage |-> "prompt1"], [voiceSpeed |-> 85],
     [firstMessage |-> "greeting1"],
     [messagePlan |-> [idleTimeoutSeconds |-> 20]],
     [systemMessage |-> "prompt1", voiceSpeed |-> 85, silenceTimeoutSeconds |-> 10]}

\* clearDynamicTools() is called: tools.ts lines 28-35
CallClear(t, limit) ==
    /\ Free(t) /\ started < limit
    /\ started' = started + 1
    /\ Commit(t, Return([Fresh(t, "clear") EXCEPT !.reg = clearDynamicTools(@)]))
    /\ UNCHANGED <<profile, env, nextToolId>>

\* updateAssistant(assistantId, changes) is called: vapi.ts lines 542-560
CallUpdate(t, changes, limit) ==
    /\ Free(t) /\ started < limit
    /\ started' = started + 1
    /\ Commit(t, updateAssistant(Fresh(t, "update"), changes, TRUE))
    /\ UNCHANGED <<profile, env, nextToolId>>

InitApi ==
    /\ registry \in RegistryInputs
    /\ history = <<>>
    /\ profile \in ProfileInputs
    /\ env = [vapiSync |-> TRUE, n8n |-> TRUE]
    /\ task = [t \in TaskIds |-> IdleTask]
    /\ started = 0
    /\ nextToolId = 1
    /\ faults = 0

NextApi ==
    \/ CallClear("a", MaxRuns)
    \/ \E changes \in UpdateInputs : CallUpdate("a", changes, MaxRuns)
    \/ UaGetModel("a")
    \/ UaGetVoice("a")
    \/ UaPatch("a")

SpecApi == InitApi /\ [][NextApi]_vars

\* SpecOverlap: two pipeline runs against the same profile, started by two
\* end-of-call reports, each step of one interleaved with the steps of the
\* other.  One run changes the instructions and adds a capability, the other
\* changes the generation limit.
OverlapOutcomes ==
    {[kind |-> "json",
      value |-> [failures |-> <<"f1">>, changes |-> <<"c1">>,
                 configChanges |-> [systemMessage |-> "prompt1"],
                 newTools |-> <<[name |-> "lookup_rate", handlerCode |-> "valid"]>>,
                 newWorkflows |-> <<>>, resourceRequests |-> <<>>]],
     [kind |-> "json",
      value |-> [failures |-> <<"f1">>, changes |-> <<"c1">>,
                 configChanges |-> [maxTokens |-> 500],
                 newTools |-> <<>>, newWorkflows |-> <<>>, resourceRequests |-> <<>>]]}

InitOverlap == Init /\ env = [vapiSync |-> TRUE, n8n |-> TRUE]

StepOverlap(t) ==
    \/ GetCall(t)
    \/ FetchAssistant(t)
    \/ Analyze(t, OverlapOutcomes)
    \/ UaGetModel(t)
    \/ UaPatch(t)
    \/ CrtVapiTool(t)
    \/ CrtAttachGet(t)
    \/ CrtAttachPatch(t)
    \/ CrtNotify(t)
    \/ TestTool(t)
    \/ Verify(t)
    \/ NotifySummary(t)

NextOverlap ==
    \E t \in TaskIds :
      \/ task[t].pc = "idle" /\ \E c \in CallIds : StartImprove(t, c, "", MaxRuns)
      \/ StepOverlap(t)

SpecOverlap == InitOverlap /\ [][NextOverlap]_vars

\* SpecCallback: one run started with or without a contact address, in which
\* every call that is awaited is answered or fails and the settle timer
\* fires: the event loop runs every continuation that is ready
StepCallback(t) ==
    \/ GetCall(t)
    \/ FetchAssistant(t)
    \/ Analyze(t, LifeOutcomes)
    \/ UaGetModel(t)
    \/ UaPatch(t)
    \/ CrtVapiTool(t)
    \/ CrtAttachGet(t)
    \/ CrtAttachPatch(t)
    \/ CrtNotify(t)
    \/ TestTool(t)
    \/ CreateWorkflow(t)
    \/ ResourceNotify(t)
    \/ Verify(t)
    \/ NotifySummary(t)
    \/ Settle(t)
    \/ Callback(t)
    \/ CallbackNotify(t)

NextCallback ==
    \/ \E c \in CallIds, n \in Customers : StartImprove("a", c, n, 1)
    \/ StepCallback("a")

SpecCallback == Init /\ [][NextCallback]_vars /\ WF_vars(StepCallback("a"))

\* SpecManual: up to MaxRuns calls one after the other, each a run by outcome
\* id (with the contact address of the report that started it), a run by
\* raw transcript (with or without one) or a reset
ManualOutcomes ==
    {[kind |-> "garbage"],
     [kind |-> "json",
      value |-> [failures |-> <<"f1">>, changes |-> <<"c1">>,
                 configChanges |-> [systemMessage |-> "prompt1",
                                    maxDurationSeconds |-> 300],
                 newTools |-> <<[name |-> "lookup_rate", handlerCode |-> "valid"]>>,
                 newWorkflows |-> <<[name |-> "Send Customer WhatsApp",
                                     webhookPath |-> "send-customer-whatsapp",
                                     steps |-> 1]>>,
                 resourceRequests |-> <<"need credentials">>]]}

StepManual(t) ==
    \/ ManualFetchAssistant(t)
    \/ ManualAnalyze(t, ManualOutcomes)
    \/ ManualCreateWorkflow(t)
    \/ ManualResourceNotify(t)
    \/ ManualNotifySummary(t)
    \/ ManualSettle(t)
    \/ ManualCallback(t)

\* the continuations of analyzeAndImprove and of resetToBaseline
StepImprove(t) ==
    \/ GetCall(t)
    \/ FetchAssistant(t)
    \/ UaGetModel(t)
    \/ UaGetVoice(t)
    \/ UaPatch(t)
    \/ CrtVapiTool(t)
    \/ CrtAttachGet(t)
    \/ CrtAttachPatch(t)
    \/ CrtNotify(t)
    \/ TestTool(t)
    \/ CreateWorkflow(t)
    \/ ResourceNotify(t)
    \/ Verify(t)
    \/ NotifySummary(t)
    \/ Settle(t)
    \/ Callback(t)
    \/ CallbackNotify(t)

NextManual ==
    \/ Quiet /\ \E c \in CallIds : StartImprove("a", c, "+971500000000", MaxRuns)
    \/ Quiet /\ \E n \in Customers : StartManual("a", n, MaxRuns)
    \/ Quiet /\ StartReset("a", MaxRuns)
    \/ Analyze("a", ManualOutcomes)
    \/ StepManual("a")
    \/ StepImprove("a")

SpecManual == InitOverlap /\ [][NextManual]_vars

\* SpecServer: up to MaxRuns requests to the HTTP handlers, handled in slot
\* "b"; the run an end-of-call report starts goes on in slot "a" while later
\* requests are handled
ToolCallPayloads ==
    {[type |-> "status-update", toolCallList |-> <<>>]}
      \cup {[type |-> "tool-calls", toolCallList |-> q] :
              q \in {<<"check_shipment_status">>, <<"lookup_rate">>,
                     <<"lookup_rate", "check_shipment_status">>}}

ServerOutcomes == {[kind |-> "throw"], [kind |-> "garbage"]}

StepServer(t) ==
    \/ GetCall(t)
    \/ FetchAssistant(t)
    \/ Analyze(t, ServerOutcomes)
    \/ UaGetModel(t)
    \/ UaPatch(t)
    \/ Verify(t)
    \/ NotifySummary(t)
    \/ Settle(t)
    \/ Callback(t)
    \/ CallbackNotify(t)
    \/ PipelineRejected(t)

StepHandler(h) ==
    \/ TcHandler(h)
    \/ TcDecide(h)
    \/ BrainTool(h)
    \/ BrainEscalate(h)
    \/ BrainExec(h)
    \/ CrtVapiTool(h)
    \/ CrtAttachGet(h)
    \/ CrtAttachPatch(h)
    \/ CrtNotify(h)
    \/ StateRouteFetch(h)
    \/ ImprovementsRouteFetch(h)

NextServer ==
    \/ \E msg \in ServerMessages : ServerMessage("b", "a", msg, MaxRuns)
    \/ \E payload \in ToolCallPayloads : StartToolCalls("b", payload, MaxRuns)
    \/ \E urlSet \in BOOLEAN : StartStateRoute("b", urlSet, MaxRuns)
    \/ \E urlSet \in BOOLEAN : StartImprovementsRoute("b", urlSet, MaxRuns)
    \/ StepServer("a")
    \/ StepHandler("b")

SpecServer == InitOverlap /\ [][NextServer]_vars

-----------------------------------------------------------------------------
(* Properties *)

Range(q) == {q[i] : i \in 1..Len(q)}

RecordsOf(rid) == {i \in 1..Len(history) : history[i].rid = rid}

ImproveDone(s) == s.kind = "improve" /\ s.pc = "done"

\* C1: a pipeline run whose outcome fetch (getCall) or profile fetch
\* (getAssistant) fails ends by throwing that error, and leaves the history,
\* the registry and the profile as they were: no record appended, no tool
\* registered, no PATCH issued.
C1_FatalFetchAborts ==
    \A t \in TaskIds :
      LET s == task[t]
      IN (s.kind = "improve" /\ s.failed # <<>>
            /\ s.failed[1] \in {"get_call", "get_assistant"})
         => /\ s.pc = "done" /\ s.result = "threw"
            /\ s.error = (IF s.failed[1] = "get_call" THEN "getCall" ELSE "getAssistant")
            /\ history = <<>> /\ s.pushed = 0
            /\ registry = seedTools
            /\ profile = InitialProfile /\ s.patches = 0

C1_Witness ==
    \E t \in TaskIds :
      ImproveDone(task[t]) /\ task[t].failed = <<"get_assistant">>
        /\ task[t].result = "threw"

\* C2: a pipeline run that has terminated either returned with its record
\* in history (COMPLETE) or threw with no record appended (ABORTED); it
\* never threw after appending its record.
C2_CompleteOrAborted ==
    \A t \in TaskIds :
      LET s == task[t]
      IN ImproveDone(s)
         => \/ s.result = "returned" /\ s.pushed = 1 /\ RecordsOf(s.rid) # {}
            \/ s.result = "threw" /\ s.pushed = 0 /\ RecordsOf(s.rid) = {}

\* C3: once the outcome fetch and the profile fetch of a run have both
\* succeeded, the run appends exactly one record, whatever the later
\* external calls answer.
C3_PersistAfterFetches ==
    \A t \in TaskIds :
      LET s == task[t]
      IN (ImproveDone(s) /\ s.assistant # EmptyObj)
         => s.pushed = 1 /\ Cardinality(RecordsOf(s.rid)) = 1

SynthesisSites ==
    {"crt_vapi_tool", "crt_attach_get", "crt_attach_patch", "crt_notify", "test_tool"}

CreateToolErrors(log) ==
    {i \in 1..Len(log) : log[i].step = "create_tool" /\ log[i].status = "error"}

\* C4: a run whose change-set asks for two capabilities (of different
\* names), of which exactly one fails in createAndRegisterTool, and in
\* which nothing fails outside capability synthesis, returns its record;
\* the record's toolsCreated holds the name of the capability that was
\* created and not the name of the failed one, and its step log has a
\* create_tool entry with status error for the failed one.
C4_OneOfTwoToolsFails ==
    \A t \in TaskIds :
      LET s == task[t]
          nt == ListOf(s.analysis, "newTools")
          errs == CreateToolErrors(s.log)
      IN (ImproveDone(s) /\ Len(nt) = 2 /\ nt[1].name # nt[2].name
            /\ Cardinality(errs) = 1 /\ Range(s.failed) \subseteq SynthesisSites)
         => LET bad == s.log[CHOOSE i \in errs : TRUE].item
                good == IF nt[1].name = bad THEN nt[2].name ELSE nt[1].name
            IN /\ s.result = "returned"
               /\ bad \in {nt[1].name, nt[2].name}
               /\ \E i \in RecordsOf(s.rid) :
                    /\ good \in Range(history[i].toolsCreated)
                    /\ bad \notin Range(history[i].toolsCreated)
                    /\ \E j \in CreateToolErrors(history[i].pipelineLog) :
                         history[i].pipelineLog[j].item = bad

C4_Witness ==
    \E t \in TaskIds :
      LET s == task[t]
      IN /\ ImproveDone(s) /\ s.result = "returned"
         /\ Len(ListOf(s.analysis, "newTools")) = 2
         /\ s.analysis.newTools[1].name # s.analysis.newTools[2].name
         /\ Cardinality(CreateToolErrors(s.log)) = 1
         /\ s.failed = <<"crt_notify">>
         /\ Len(s.toolsCreated) = 1

\* C5: whatever text the reasoning service answers with, the reasoning step
\* does not abort the run.
C5_ReasoningTextNeverAborts ==
    \A t \in TaskIds :
      (task[t].kind = "improve" /\ task[t].raw # "") => task[t].error # "TypeError"

\* C6: when the reasoning output does not decode, the change-set of the run
\* has configChanges = {systemMessage: the profile's instructions} and asks
\* for no capability, automation or resource; the run registers no
\* capability and deploys no automation.
C6_ParseFailureIsNoOp ==
    \A t \in TaskIds :
      LET s == task[t]
      IN (s.kind = "improve" /\ s.raw = "garbage")
         => /\ DOMAIN s.analysis.configChanges = {"systemMessage"}
            /\ s.analysis.configChanges.systemMessage = s.assistant.systemMessage
            /\ s.analysis.configChanges.systemMessage = extractSystemMessage(profile)
            /\ ListOf(s.analysis, "newTools") = <<>>
            /\ ListOf(s.analysis, "newWorkflows") = <<>>
            /\ ListOf(s.analysis, "resourceRequests") = <<>>
            /\ s.toolsCreated = <<>> /\ s.workflowsCreated = <<>>
            /\ registry = seedTools

C6_Witness ==
    \E t \in TaskIds :
      ImproveDone(task[t]) /\ task[t].raw = "garbage" /\ task[t].result = "returned"
        /\ task[t].patches = 1

\* the place of a step-log entry in the order of the pipeline
StepRank(step) ==
    CASE step = "fetch_transcript" -> 1
      [] step = "fetch_assistant" -> 2
      [] step \in {"check_tools", "transcript_preview"} -> 3
      [] step = "ai_analysis" -> 4
      [] step = "update_assistant" -> 5
      [] step \in {"create_tool", "test_tool"} -> 6
      [] step \in {"create_workflow", "wire_workflow_to_vapi"} -> 7
      [] step = "resource_request" -> 8
      [] step = "verify_assistant" -> 9
      [] OTHER -> 11

\* the step a run is in, by the call it is waiting for
PhaseRank(s) ==
    CASE s.pc = "get_call" -> 1
      [] s.pc = "get_assistant" -> 2
      [] s.pc = "analyze" -> 4
      [] s.pc \in {"ua_get_model", "ua_get_voice", "ua_patch"} -> 5
      [] s.pc = "test_tool" -> 6
      [] s.pc \in {"crt_vapi_tool", "crt_attach_get", "crt_attach_patch", "crt_notify"} ->
           IF s.crt.ctx = "tool" THEN 6 ELSE 7
      [] s.pc = "create_workflow" -> 7
      [] s.pc = "resource_notify" -> 8
      [] s.pc = "verify" -> 9
      [] s.pc = "notify_summary" -> 10
      [] s.pc \in {"settle", "callback", "callback_notify"} -> 11
      [] OTHER -> 12

LogInOrder(s) ==
    /\ \A i \in 1..(Len(s.log) - 1) : StepRank(s.log[i].step) <= StepRank(s.log[i + 1].step)
    /\ s.log # <<>> => StepRank(s.log[Len(s.log)].step) <= PhaseRank(s)

\* C7: a run goes through its steps in the fixed order fetch-outcome,
\* fetch-profile, enumerate-capabilities, invoke-reasoning,
\* apply-configuration-changes, synthesize-capabilities, deploy-automations,
\* request-missing-resources, persist-record, notify-operator-summary,
\* trigger-callback, never going back; the record is persisted exactly
\* between the resource requests and the summary; the step log lists its
\* entries in that order.
C7_StepsInOrder ==
    [][\A t \in TaskIds :
         (task[t].kind = "improve" /\ task'[t].kind = "improve")
         => /\ PhaseRank(task'[t]) >= PhaseRank(task[t])
            /\ LogInOrder(task'[t])
            /\ (task'[t].pc # "done" =>
                  (task'[t].pushed = 1 <=> PhaseRank(task'[t]) >= 10))]_vars

C7_Witness ==
    \E t \in TaskIds :
      LET s == task[t]
          steps == {s.log[i].step : i \in 1..Len(s.log)}
      IN /\ ImproveDone(s) /\ s.result = "returned" /\ s.rec.callbackTriggered
         /\ {"fetch_transcript", "fetch_assistant", "check_tools", "ai_analysis",
             "update_assistant", "create_tool", "test_tool", "create_workflow",
             "wire_workflow_to_vapi", "resource_request", "verify_assistant",
             "callback"} \subseteq steps

\* C8: every capability seeded at process start is still in the registry,
\* as the seed definition, after any sequence of runs, brain-created tools
\* and resets.
C8_SeedsStayRegistered ==
    \A i \in 1..Len(SeedNames) : getTool(registry, SeedNames[i]) = SeedTool(SeedNames[i])

\* the profile a successful resetToBaseline leaves when it starts from p
ResetProfile(p) ==
    applyPatch(p, Merge(Merge(patchModel(BASELINE, p), patchVoice(BASELINE, p)),
                        plainPatchOf(BASELINE)))

\* C9: after a successful resetToBaseline the registry is exactly the seed
\* set and the history is empty, and one more reset would change neither
\* them nor the profile.
C9_ResetRestoresSeedSet ==
    \A t \in TaskIds :
      (task[t].kind = "reset" /\ task[t].pc = "done" /\ task[t].result = "returned")
      => /\ getAllTools(registry) = seedTools
         /\ history = <<>>
         /\ clearDynamicTools(registry) = registry
         /\ clearHistory(history) = history
         /\ ResetProfile(profile) = profile

ToolUniverse ==
    [name : SeedNameSet \cup {"lookup_rate", "never_seen"},
     handler : {"other"}, isDynamic : {TRUE}]

\* C10: registerTool with a name the registry already holds replaces the
\* stored definition: getTool(name) then returns the new definition, the
\* registry has exactly one entry of that name, and every other entry is
\* as it was.
C10_RegisterReplaces ==
    \A tool \in ToolUniverse :
      IndexOf(registry, tool.name) # 0
      => LET r == registerTool(registry, tool)
         IN /\ getTool(r, tool.name) = tool
            /\ Cardinality({i \in 1..Len(r) : r[i].name = tool.name}) = 1
            /\ Len(r) = Len(registry)
            /\ \A i \in 1..Len(registry) :
                 registry[i].name # tool.name => r[i] = registry[i]

\* a run has re-registered a name that was in the registry
C10_Witness ==
    /\ Len(registry) = Len(SeedNames)
    /\ \E i \in 1..Len(registry) :
         registry[i].name \in SeedNameSet /\ registry[i].isDynamic

\* C11: clearDynamicTools, on any registry content, removes every entry
\* with isDynamic true, however many there are, and leaves every entry with
\* isDynamic false in the registry, unchanged and in its place among them.
C11_ClearRemovesExactlyDynamic ==
    \A t \in TaskIds :
      LET s == task[t]
      IN (s.kind = "clear" /\ s.pc = "done")
         => /\ \A i \in 1..Len(registry) : ~registry[i].isDynamic
            /\ \A i \in 1..Len(s.reg0) :
                 ~s.reg0[i].isDynamic => getTool(registry, s.reg0[i].name) = s.reg0[i]
            /\ registry = SelectSeq(s.reg0, LAMBDA e : ~e.isDynamic)

C11_Witness ==
    \E t \in TaskIds :
      LET s == task[t]
      IN /\ s.kind = "clear" /\ s.pc = "done"
         /\ Len(s.reg0) = 3 /\ Len(registry) = 1
         /\ s.reg0[1].isDynamic /\ s.reg0[2].isDynamic /\ ~s.reg0[3].isDynamic

\* C12: updateAssistant called with an empty changes object awaits no
\* external call: it returns at once, having issued no PATCH, and the
\* profile is as it was.
C12_EmptyChangesNoWrite ==
    \A t \in TaskIds :
      LET s == task[t]
      IN (s.kind = "update" /\ s.ua.changes = EmptyObj)
         => /\ s.pc = "done" /\ s.result = "returned"
            /\ s.patches = 0 /\ s.failed = <<>>
            /\ profile = s.prof0

C12_Witness ==
    \E t \in TaskIds :
      LET s == task[t]
      IN /\ s.kind = "update" /\ s.ua.changes = EmptyObj /\ s.pc = "done"
         /\ DOMAIN s.prof0 # {"name"}

\* the model object of a profile: current.model || {}
ModelOf(p) == IF Has(p, "model") THEN p.model ELSE EmptyObj

\* C13: updateAssistant called with only maxTokens changed sends a PATCH
\* whose only top-level field is model, holding the model object of the
\* live profile with maxTokens replaced; once it has returned every other
\* top-level field and every other field of the model is as it was, and if
\* it throws the profile is as it was.
C13_MaxTokensOnlyPreservesRest ==
    \A t \in TaskIds :
      LET s == task[t]
          old == ModelOf(s.prof0)
      IN (s.kind = "update" /\ DOMAIN s.ua.changes = {"maxTokens"})
         => /\ s.pc = "ua_patch" =>
                 s.ua.patch = [model |-> Merge(old, [maxTokens |-> s.ua.changes.maxTokens])]
            /\ (s.pc = "done" /\ s.result = "returned") =>
                 /\ DOMAIN profile = DOMAIN s.prof0 \cup {"model"}
                 /\ \A k \in DOMAIN s.prof0 \ {"model"} : profile[k] = s.prof0[k]
                 /\ DOMAIN profile.model = DOMAIN old \cup {"maxTokens"}
                 /\ \A k \in DOMAIN old \ {"maxTokens"} : profile.model[k] = old[k]
                 /\ profile.model.maxTokens = s.ua.changes.maxTokens
            /\ (s.pc = "done" /\ s.result = "threw") => profile = s.prof0

C13_Witness ==
    \E t \in TaskIds :
      LET s == task[t]
      IN /\ s.kind = "update" /\ DOMAIN s.ua.changes = {"maxTokens"}
         /\ s.pc = "done" /\ s.result = "returned"
         /\ Cardinality(DOMAIN s.prof0) >= 6 /\ Cardinality(DOMAIN s.prof0.model) >= 6
         /\ profile.model.maxTokens # s.prof0.model.maxTokens

\* C14: when a read of the live profile fails inside updateAssistant, the
\* call throws, no PATCH is issued and the profile is as it was before the
\* call.
C14_ReadFailureAppliesNothing ==
    \A t \in TaskIds :
      LET s == task[t]
      IN (s.kind = "update" /\ s.failed # <<>>
            /\ s.failed[1] \in {"ua_get_model", "ua_get_voice"})
         => /\ s.pc = "done" /\ s.result = "threw" /\ s.error = "updateAssistant"
            /\ s.patches = 0
            /\ profile = s.prof0

\* the model was read, a patch for it prepared, and the read of the voice failed
C14_Witness ==
    \E t \in TaskIds :
      LET s == task[t]
      IN /\ s.kind = "update" /\ s.pc = "done" /\ s.failed = <<"ua_get_voice">>
         /\ Has(s.ua.patch, "model")
         /\ s.ua.patch.model # ModelOf(s.prof0)

\* C15: when two runs overlap, a PATCH of one run changes only what that
\* run means to change: the PATCH of updateAssistant leaves every field of
\* the model that is not among the run's changes as it is in the profile,
\* and the PATCH of addToolToAssistant leaves every field of the model but
\* toolIds as it is and keeps every tool id already bound.
C15_WritesKeepForeignFields ==
    [][\A t \in TaskIds :
         /\ (task[t].pc = "ua_patch" /\ task'[t].pc # "ua_patch" /\ profile' # profile)
            => \A k \in DOMAIN ModelOf(profile) \ DOMAIN modelPatchOf(task[t].ua.changes) :
                 Has(ModelOf(profile'), k) /\ profile'.model[k] = profile.model[k]
         /\ (task[t].pc = "crt_attach_patch" /\ task'[t].pc # "crt_attach_patch"
               /\ profile' # profile)
            => /\ \A k \in DOMAIN ModelOf(profile) \ {"toolIds"} :
                    Has(ModelOf(profile'), k) /\ profile'.model[k] = profile.model[k]
               /\ Range(ListOf(ModelOf(profile), "toolIds"))
                    \subseteq Range(ListOf(ModelOf(profile'), "toolIds"))]_vars

FailedTests(log) ==
    {i \in 1..Len(log) : log[i].step = "test_tool" /\ log[i].status = "error"}

\* C16: a capability whose smoke test failed stays in the registry, as a
\* synthesized capability, and its name stays in toolsCreated, of the run
\* and of its record; a run in which no call but smoke tests failed logs one
\* test_tool entry with status error for each, is not aborted, and ends by
\* returning its record.
C16_FailedSmokeTestKeepsTool ==
    \A t \in TaskIds :
      LET s == task[t]
      IN s.kind = "improve"
         => /\ \A i \in FailedTests(s.log) :
                 /\ s.log[i].item \in Range(s.toolsCreated)
                 /\ getTool(registry, s.log[i].item).isDynamic
                 /\ \A j \in RecordsOf(s.rid) :
                      s.log[i].item \in Range(history[j].toolsCreated)
            /\ (s.failed # <<>> /\ Range(s.failed) = {"test_tool"})
               => /\ s.result # "threw"
                  /\ Cardinality(FailedTests(s.log)) = Len(s.failed)
                  /\ s.pc = "done" => s.result = "returned" /\ RecordsOf(s.rid) # {}

C16_Witness ==
    \E t \in TaskIds :
      LET s == task[t]
      IN /\ ImproveDone(s) /\ s.result = "returned" /\ s.failed = <<"test_tool">>
         /\ \E j \in RecordsOf(s.rid) :
              \E i \in FailedTests(history[j].pipelineLog) :
                history[j].pipelineLog[i].item \in Range(history[j].toolsCreated)

TestsOf(log, n) == {i \in 1..Len(log) : log[i].step = "test_tool" /\ log[i].item = n}

\* C17: every capability a run has registered and listed in toolsCreated,
\* the one wired to a deployed automation included, was invoked as a smoke
\* test exactly once for each time it was registered.
C17_EveryCreatedToolTestedOnce ==
    \A t \in TaskIds :
      LET s == task[t]
      IN ImproveDone(s)
         => \A n \in Range(s.toolsCreated) :
              Cardinality(TestsOf(s.log, n))
                = Cardinality({i \in 1..Len(s.toolsCreated) : s.toolsCreated[i] = n})

\* the names of the capabilities wired to the automations a run deployed
WiredNames(s) == {toolNameOf(s.workflowsCreated[i]) : i \in 1..Len(s.workflowsCreated)}

\* C18: a run that has returned after deploying k automations has registered
\* k different wiring capabilities, none of which was in the registry before
\* the run, and its toolsCreated lists each of them.
C18_OneNewToolPerWorkflow ==
    \A t \in TaskIds :
      LET s == task[t]
      IN (ImproveDone(s) /\ s.result = "returned")
         => /\ Cardinality(WiredNames(s)) = Len(s.workflowsCreated)
            /\ \A n \in WiredNames(s) :
                 /\ IndexOf(s.reg0, n) = 0
                 /\ getTool(registry, n).isDynamic
                 /\ n \in Range(s.toolsCreated)

\* C19: in a run whose change-set asks for an automation while the
\* automation platform is not configured, once the deployment step is over
\* nothing was deployed, one resource request for the platform's credentials
\* was added, the step log has no create_workflow entry with status error,
\* and the run, once over, has persisted its record.
C19_UnconfiguredPlatformIsNoError ==
    \A t \in TaskIds :
      LET s == task[t]
          rr == ListOf(s.analysis, "resourceRequests")
      IN (s.kind = "improve" /\ ~env.n8n
            /\ Len(ListOf(s.analysis, "newWorkflows")) > 0 /\ PhaseRank(s) >= 8)
         => /\ s.workflowsCreated = <<>>
            /\ Cardinality({i \in 1..Len(rr) : rr[i] = "need n8n"}) = 1
            /\ \A i \in 1..Len(s.log) :
                 ~(s.log[i].step = "create_workflow" /\ s.log[i].status = "error")
            /\ s.pc = "done" => s.pushed = 1

\* C20: a run in which no call failed but notifications of resource
\* requests goes on to persist its record: it is never over without it.
C20_ResourceNotifyNeverFailsRun ==
    \A t \in TaskIds :
      LET s == task[t]
      IN (ImproveDone(s) /\ s.failed # <<>> /\ Range(s.failed) = {"resource_notify"})
         => s.pushed = 1 /\ RecordsOf(s.rid) # {}

\* the record of run rid in history says the customer was called back
Flagged(rid) == \E i \in RecordsOf(rid) : history[i].callbackTriggered

\* C21: a run started with a contact address ends, and unless it was aborted
\* or its outbound call failed, its record in history then has
\* callbackTriggered = true; and a record in history has callbackTriggered =
\* true only if its run requested the outbound call to its contact and that
\* call answered: the flag is set in the step in which createOutboundCall
\* answers, and in no other.
C21_CallbackFlagTracksCall ==
    /\ \A t \in TaskIds :
         (task[t].kind = "improve" /\ task[t].customerNumber # "")
           ~> (task[t].pc = "done"
                 /\ (task[t].result = "threw" \/ "callback" \in Range(task[t].failed)
                       \/ Flagged(task[t].rid)))
    /\ [](\A i \in 1..Len(history) :
            history[i].callbackTriggered
            => \E t \in TaskIds :
                 /\ task[t].rid = history[i].rid /\ task[t].customerNumber # ""
                 /\ history[i].customerNumber = task[t].customerNumber
                 /\ task[t].calls = 1 /\ "callback" \notin Range(task[t].failed)
                 /\ task[t].pc = "done")
    /\ [][\A t \in TaskIds :
            (Flagged(task[t].rid)' /\ ~Flagged(task[t].rid))
            => task[t].pc = "callback" /\ task'[t].failed = task[t].failed]_vars

C21_Witness ==
    \E t \in TaskIds :
      /\ ImproveDone(task[t]) /\ task[t].result = "returned"
      /\ task[t].failed = <<"test_tool">>
      /\ Flagged(task[t].rid)

\* C22: a run requests the outbound call at most once: never when it was
\* given no contact address; when it was given one, only once the summary
\* notification has answered and the settle timer has fired, and exactly
\* once if the run returns; once the call has failed it is not requested
\* again.
C22_CallbackAtMostOnce ==
    \A t \in TaskIds :
      LET s == task[t]
      IN s.kind = "improve"
         => /\ s.calls <= 1
            /\ s.customerNumber = "" => s.calls = 0
            /\ s.pc = "settle" => s.calls = 0
            /\ s.calls = 1 =>
                 /\ s.pushed = 1 /\ "notify_summary" \notin Range(s.failed)
                 /\ s.pc \in {"callback", "callback_notify", "done"}
            /\ (s.pc = "done" /\ s.result = "returned" /\ s.customerNumber # "") =>
                 s.calls = 1
            /\ "callback" \in Range(s.failed) =>
                 s.calls = 1 /\ s.pc \in {"callback_notify", "done"}

\* the outbound call failed, the operator was told, the run returned
C22_Witness ==
    \E t \in TaskIds :
      /\ ImproveDone(task[t]) /\ task[t].result = "returned"
      /\ task[t].failed = <<"callback">> /\ task[t].calls = 1

\* C23: a run, by outcome id or by raw transcript, whose outbound call
\* failed has told the operator of it once, returns, and leaves its record
\* in history with callbackTriggered = false.
C23_CallbackFailureReported ==
    \A t \in TaskIds :
      LET s == task[t]
      IN (s.kind \in {"improve", "manual"} /\ s.pc = "done"
            /\ Range(s.failed) \cap {"callback", "m_callback"} # {})
         => /\ s.reports = 1
            /\ s.result = "returned"
            /\ RecordsOf(s.rid) # {} /\ ~Flagged(s.rid)

\* the fields of a record that are set when it is built
Built(rec) ==
    [k \in DOMAIN rec \ {"callbackTriggered", "pipelineLog"} |-> rec[k]]

\* h2 keeps the records of h, in their places
KeepsRecords(h, h2) ==
    Len(h2) >= Len(h) /\ \A i \in 1..Len(h) : Built(h2[i]) = Built(h[i])

\* C27: over any sequence of runs by outcome id, runs by raw transcript and
\* resets, a step changes the history in one of two ways only: a run that
\* has not yet stored a record appends its record at the end, every record
\* before it staying in its place, or a reset that returns empties it;
\* every other step keeps the records and their order.  A run stores at
\* most one record, and exactly one if it returns.
C27_HistoryAppendOnly ==
    /\ [](\A t \in TaskIds :
            task[t].kind \in {"improve", "manual"}
            => /\ task[t].pushed <= 1
               /\ (task[t].pc = "done" /\ task[t].result = "returned")
                    => Cardinality(RecordsOf(task[t].rid)) = 1)
    /\ [][\/ Len(history') = Len(history) /\ KeepsRecords(history, history')
          \/ /\ Len(history') = Len(history) + 1 /\ KeepsRecords(history, history')
             /\ \E t \in TaskIds :
                  /\ task[t].kind \in {"improve", "manual"}
                  /\ task[t].pushed = 0 /\ task'[t].pushed = 1
                  /\ history'[Len(history')].rid = task[t].rid
          \/ /\ history' = <<>>
             /\ \E t \in TaskIds :
                  /\ task[t].kind = "reset" /\ task[t].pc # "done"
                  /\ task'[t].pc = "done" /\ task'[t].result = "returned"]_vars

\* a run by raw transcript has appended its record after that of a run by
\* outcome id, whose record has since been flagged
C27_Witness ==
    /\ Len(history) = 2
    /\ history[1].callId = "call-1" /\ history[1].callbackTriggered
    /\ history[2].callId = "manual" /\ history[2].rid = 2

\* the external calls updateAssistant awaits
UpdateSites == {"ua_get_model", "ua_get_voice", "ua_patch"}

\* C29: a run, by outcome id or by raw transcript, in which no call failed
\* but those of updateAssistant goes on after that failure: once over it has
\* returned, has registered every capability its change-set asks for and
\* has stored its record.
C29_ManualUpdateIsBestEffort ==
    \A t \in TaskIds :
      LET s == task[t]
      IN (s.kind \in {"improve", "manual"} /\ s.pc = "done"
            /\ s.failed # <<>> /\ Range(s.failed) \subseteq UpdateSites)
         => /\ s.result = "returned"
            /\ \A i \in 1..Len(ListOf(s.analysis, "newTools")) :
                 s.analysis.newTools[i].name \in Range(s.toolsCreated)
            /\ Cardinality(RecordsOf(s.rid)) = 1

\* the idle-prompt plan of a profile
PlanOf(p) == IF Has(p, "messagePlan") THEN p.messagePlan ELSE EmptyObj

\* C30: once updateAssistant, called with a messagePlan that sets some of
\* the plan's sub-fields, has returned, every sub-field of the live
\* profile's messagePlan that the call does not set is as it was.
C30_MessagePlanKeepsSubFields ==
    \A t \in TaskIds :
      LET s == task[t]
      IN (s.kind = "update" /\ Has(s.ua.changes, "messagePlan")
            /\ s.pc = "done" /\ s.result = "returned")
         => \A k \in DOMAIN PlanOf(s.prof0) \ DOMAIN s.ua.changes.messagePlan :
              Has(PlanOf(profile), k) /\ profile.messagePlan[k] = s.prof0.messagePlan[k]

\* a run is started in this step in slot t
RunStarts(t) == task'[t].kind = "improve" /\ task'[t].rid # task[t].rid

\* C24: every end-of-interaction event is acknowledged with {ok: true};
\* the handler starts a run exactly when the event is an end-of-call report
\* with a call id, an assistant id and an end reason among
\* customer-ended-call, customer-did-not-answer and customer-busy.  A step
\* that starts a run is the handling of such a report, and a record is
\* appended only by a run that such a report started.
C24_OnlyBadEndingsStartRun ==
    /\ [](\A h \in TaskIds :
            task[h].kind = "webhook"
            => /\ task[h].http = 200 /\ task[h].body = "ok"
               /\ task[h].spawned # 0
                    <=> /\ task[h].req.type = "end-of-call-report"
                        /\ task[h].req.endedReason \in
                             {"customer-ended-call", "customer-did-not-answer",
                              "customer-busy"}
                        /\ task[h].req.callId # "" /\ task[h].req.assistantId # "")
    /\ [][/\ \A t \in TaskIds :
               RunStarts(t)
               => \E h \in TaskIds :
                    /\ task'[h].kind = "webhook" /\ task'[h].spawned = task'[t].rid
                    /\ task'[h].req = task'[t].req
                    /\ task'[h].req.endedReason \in
                         {"customer-ended-call", "customer-did-not-answer",
                          "customer-busy"}
          /\ Len(history') > Len(history)
               => \E t \in TaskIds :
                    /\ task[t].kind = "improve"
                    /\ history'[Len(history')].rid = task[t].rid
                    /\ task[t].req.endedReason \in
                         {"customer-ended-call", "customer-did-not-answer",
                          "customer-busy"}]_vars

\* a report with end reason assistant-ended-call was acknowledged and
\* nothing else happened
C24_Witness ==
    \E h \in TaskIds :
      /\ task[h].kind = "webhook" /\ task[h].req.endedReason = "assistant-ended-call"
      /\ task[h].req.callId # "" /\ task[h].req.assistantId # ""
      /\ task[h].http = 200 /\ task[h].spawned = 0
      /\ history = <<>> /\ \A t \in TaskIds : task[t].kind # "improve"

\* C25: the handler of the end-of-interaction event has answered {ok: true}
\* and returned in the very step that starts the run, while the run waits
\* for its first call; nothing the run does afterwards, returning or
\* throwing, changes what the handler answered, and the rejection of a run
\* that throws is caught by the handler attached to it.
C25_AckIndependentOfRun ==
    /\ [](\A h \in TaskIds :
            task[h].kind = "webhook"
            => /\ task[h].pc = "done" /\ task[h].result = "returned"
               /\ task[h].http = 200 /\ task[h].body = "ok")
    /\ [](\A t \in TaskIds :
            (task[t].kind = "improve" /\ task[t].caller # "")
            => task[t].rejection # "unhandled")
    /\ [][\A h \in TaskIds :
            /\ \A t \in TaskIds :
                 (RunStarts(t) /\ task'[h].spawned = task'[t].rid)
                 => task'[h].http = 200 /\ task'[t].pc = "get_call"
            /\ (task[h].kind = "webhook" /\ started' = started) => task'[h] = task[h]]_vars

\* the run threw after the handler had answered, and its rejection was caught
C25_Witness ==
    \E h \in TaskIds, t \in TaskIds :
      /\ task[h].kind = "webhook" /\ task[h].spawned = task[t].rid
      /\ task[h].http = 200 /\ task[h].body = "ok"
      /\ task[t].kind = "improve" /\ task[t].result = "threw"
      /\ task[t].rejection = "caught"

\* the calls that invoke a capability handler
HandlerSites == {"tc_handler", "brain_tool", "brain_exec", "test_tool"}

\* C26: a call in which nothing failed but invocations of capability
\* handlers does not throw; the tool-call webhook then answers with its
\* results.
C26_HandlerFailureBecomesString ==
    \A t \in TaskIds :
      LET s == task[t]
      IN (s.failed # <<>> /\ Range(s.failed) \subseteq HandlerSites)
         => /\ s.result # "threw"
            /\ (s.kind = "toolcalls" /\ s.pc = "done") => s.http = 200

\* C28: when the backend cannot be reached or answers with an error status,
\* the state route and the improvements route answer with status 200 and
\* without an error body, the improvements route with an empty list for
\* each request that failed.
C28_RoutesAnswerBestEffort ==
    \A h \in TaskIds :
      LET s == task[h]
      IN (s.kind \in {"state_route", "improvements_route"} /\ s.pc = "done"
            /\ s.failed # <<>>)
         => /\ s.http = 200 /\ s.body # "error"
            /\ s.kind = "improvements_route"
                 => /\ s.req.log # "ok" => s.results.improvements = "empty"
                    /\ s.req.health # "ok" => s.results.dynamicTools = "empty"

(***************************************************************************)
(* The schema-probing profile client (part_008): the generation limit is   *)
(* written under model or llm, the prompt and the tool ids at the root.    *)
(***************************************************************************)

\* getCurrentLlmConfig, part_008 lines 83-117: model if it names a
\* provider, else llm if it names one, else a fixed fallback
getCurrentLlmConfig(p) ==
    IF Has(p, "model") /\ Has(p.model, "provider")
    THEN [field |-> "model", provider |-> p.model.provider,
          modelName |-> IF Has(p.model, "model") THEN p.model.model ELSE "undefined",
          existing |-> p.model]
    ELSE IF Has(p, "llm") /\ Has(p.llm, "provider")
    THEN [field |-> "llm", provider |-> p.llm.provider,
          modelName |-> IF Has(p.llm, "model") THEN p.llm.model ELSE "undefined",
          existing |-> p.llm]
    ELSE [field |-> "model", provider |-> "openai", modelName |-> "gpt-4o",
          existing |-> EmptyObj]

\* part_008 lines 133-137: the object sent under the located field; an
\* undefined model name is left out of the JSON body
llmObject(cfg, maxTokens) ==
    Merge([provider |-> cfg.provider, maxTokens |-> maxTokens],
          IF cfg.modelName = "undefined" THEN EmptyObj ELSE [model |-> cfg.modelName])

\* part_008 lines 131-138
probePatchLlm(changes, live) ==
    LET cfg == getCurrentLlmConfig(live)
    IN [k \in {cfg.field} |-> llmObject(cfg, changes.maxTokens)]

\* part_008 lines 126-128, 141-143, 153-160: the fields written at the root
probeRootPatchOf(changes) ==
    Merge(Merge(IF Has(changes, "systemMessage")
                THEN [instructions |-> changes.systemMessage] ELSE EmptyObj,
                IF Has(changes, "toolIds") THEN [toolIds |-> changes.toolIds]
                ELSE EmptyObj),
          plainPatchOf(changes))

\* part_008 lines 162-167
ProbeAfterVoice(w) ==
    IF DOMAIN w.s.ua.patch = {}
    THEN Return(w)
    ELSE Await([w EXCEPT !.s.patches = @ + 1], "probe_patch")

\* part_008 lines 145-150
ProbeAfterLlm(w) ==
    IF Has(w.s.ua.changes, "voiceSpeed") THEN Await(w, "probe_get_voice")
    ELSE ProbeAfterVoice(w)

\* updateAssistant(assistantId, changes) of part_008 is called: lines 119-132
CallProbeUpdate(t, changes, limit) ==
    /\ Free(t) /\ started < limit
    /\ started' = started + 1
    /\ LET w == [Fresh(t, "probe") EXCEPT
                   !.s.ua = [changes |-> changes, patch |-> probeRootPatchOf(changes)]]
       IN Commit(t, IF Has(changes, "maxTokens")
                    THEN Await(w, "probe_get_llm")
                    ELSE ProbeAfterLlm(w))
    /\ UNCHANGED <<profile, env, nextToolId>>

\* the GET of getCurrentLlmConfig answers: part_008 lines 89-92, 132-138
ProbeGetLlm(t) ==
    /\ task[t].pc = "probe_get_llm"
    /\ \E ok \in Outcomes(t) :
         Commit(t, IF ok
                   THEN ProbeAfterLlm(
                          [Ext(t, ok) EXCEPT !.s.ua.patch =
                             Merge(@, probePatchLlm(task[t].ua.changes, profile))])
                   ELSE Throw(Ext(t, ok), "updateAssistant"))
    /\ UNCHANGED <<profile, env, started, nextToolId>>

\* the GET for the live voice answers: part_008 lines 146-150
ProbeGetVoice(t) ==
    /\ task[t].pc = "probe_get_voice"
    /\ \E ok \in Outcomes(t) :
         Commit(t, IF ok
                   THEN ProbeAfterVoice(
                          [Ext(t, ok) EXCEPT !.s.ua.patch =
                             Merge(@, patchVoice(task[t].ua.changes, profile))])
                   ELSE Throw(Ext(t, ok), "updateAssistant"))
    /\ UNCHANGED <<profile, env, started, nextToolId>>

\* the PATCH answers: part_008 line 167
ProbePatch(t) ==
    /\ task[t].pc = "probe_patch"
    /\ \E ok \in Outcomes(t) :
         /\ profile' = IF ok THEN applyPatch(profile, task[t].ua.patch) ELSE profile
         /\ Commit(t, IF ok THEN Return(Ext(t, ok))
                      ELSE Throw(Ext(t, ok), "updateAssistant"))
    /\ UNCHANGED <<env, started, nextToolId>>

\* live profiles in the provider's two layouts, and one with no provider
ProbeProfiles ==
    {[name |-> "Ruya", instructions |-> "prompt0", toolIds |-> <<7>>,
      model |-> [provider |-> "anthropic", model |-> "claude", messages |-> "prompt0",
                 maxTokens |-> 250, temperature |-> 7, toolIds |-> <<7>>],
      voice |-> [provider |-> "11labs", voiceId |-> "v1", speed |-> 100]],
     [name |-> "Ruya", instructions |-> "prompt0",
      llm |-> [provider |-> "openai", model |-> "gpt-4o", messages |-> "prompt0",
               maxTokens |-> 250, toolIds |-> <<7>>],
      voice |-> [provider |-> "11labs"]],
     [name |-> "Ruya",
      model |-> [messages |-> "prompt0"],
      llm |-> [provider |-> "openai", model |-> "gpt-4o", maxTokens |-> 250]],
     [name |-> "Ruya", model |-> [provider |-> "anthropic", maxTokens |-> 250]],
     [name |-> "bare"]}

\* the changes argument
ProbeInputs ==
    {EmptyObj, [maxTokens |-> 500], [systemMessage |-> "prompt1"], [voiceSpeed |-> 85],
     [toolIds |-> <<8>>],
     [systemMessage |-> "prompt1", maxTokens |-> 500, voiceSpeed |-> 85]}

InitProbe ==
    /\ registry = seedTools
    /\ history = <<>>
    /\ profile \in ProbeProfiles
    /\ env = [vapiSync |-> TRUE, n8n |-> TRUE]
    /\ task = [t \in TaskIds |-> IdleTask]
    /\ started = 0
    /\ nextToolId = 1
    /\ faults = 0

NextProbe ==
    \/ \E changes \in ProbeInputs : CallProbeUpdate("a", changes, MaxRuns)
    \/ ProbeGetLlm("a")
    \/ ProbeGetVoice("a")
    \/ ProbePatch("a")

SpecProbe == InitProbe /\ [][NextProbe]_vars

\* the field the probe locates in profile p
LocatedField(p) == getCurrentLlmConfig(p).field

LocatedObject(p) == getCurrentLlmConfig(p).existing

\* C31: once the schema-probing updateAssistant, called with maxTokens, has
\* returned, the object under the located field (model, else llm) has
\* every sibling field it had in the live profile, unchanged, and the new
\* maxTokens.
C31_ProbeWriteKeepsSiblings ==
    \A t \in TaskIds :
      LET s == task[t]
          f == LocatedField(s.prof0)
      IN (s.kind = "probe" /\ Has(s.ua.changes, "maxTokens")
            /\ s.pc = "done" /\ s.result = "returned")
         => /\ Has(profile, f)
            /\ Has(profile[f], "maxTokens")
            /\ profile[f].maxTokens = s.ua.changes.maxTokens
            /\ \A k \in DOMAIN LocatedObject(s.prof0) \ {"maxTokens"} :
                 Has(profile[f], k) /\ profile[f][k] = LocatedObject(s.prof0)[k]

(***************************************************************************)
(* The generic workflow builder (n8n client, createCustomWorkflow).        *)
(***************************************************************************)

\* longest list of steps a workflow is built from
MaxSteps == 3

\* `Step ${i + 1}` and `step-${i}`, i counted from 0
StepLabels == <<"Step 1", "Step 2", "Step 3", "Step 4", "Step 5">>

StepIds == <<"step-0", "step-1", "step-2", "step-3", "step-4">>

\* line 328: step.name || `Step ${i + 1}`; i is the 1-based position here
nodeNameOf(step, i) == IF step.name = "" THEN StepLabels[i] ELSE step.name

\* lines 324-356 and 370-372: connections is an object keyed by node name;
\* each step assigns connections[prevNodeName], the last assignment points
\* at "Respond"
RECURSIVE connect(_, _, _, _)
connect(steps, i, prevNodeName, connections) ==
    IF i > Len(steps)
    THEN Merge(connections, [k \in {prevNodeName} |-> "Respond"])
    ELSE connect(steps, i + 1, nodeNameOf(steps[i], i),
                 Merge(connections, [k \in {prevNodeName} |-> nodeNameOf(steps[i], i)]))

\* lines 308-379: the workflow object handed to createWorkflow
buildWorkflow(spec) ==
    [name |-> spec.name,
     nodes |-> <<[id |-> "webhook-trigger", name |-> "Webhook"]>>
               \o [i \in 1..Len(spec.steps) |->
                     [id |-> StepIds[i], name |-> nodeNameOf(spec.steps[i], i)]]
               \o <<[id |-> "respond", name |-> "Respond"]>>,
     connections |-> connect(spec.steps, 1, "Webhook", EmptyObj)]

\* names a step may carry: none, two ordinary ones, the names of the
\* trigger and of the terminal node, and a generated label
StepNames == {"", "Notify", "Log", "Webhook", "Respond", "Step 2"}

StepLists == SeqsUpTo([name : StepNames, method : {"POST"}], MaxSteps)

\* createCustomWorkflow(spec) is called: lines 297-381
CallCreateCustomWorkflow(t, steps, limit) ==
    /\ Free(t) /\ started < limit
    /\ started' = started + 1
    /\ Commit(t, Await([Fresh(t, "workflow") EXCEPT
                          !.s.req = [name |-> "custom", webhookPath |-> "hook",
                                     steps |-> steps],
                          !.s.workflow = buildWorkflow([name |-> "custom",
                                                        webhookPath |-> "hook",
                                                        steps |-> steps])],
                       "wf_create"))
    /\ UNCHANGED <<profile, env, nextToolId>>

\* createWorkflow answers: line 381
WfCreate(t) ==
    /\ task[t].pc = "wf_create"
    /\ \E ok \in Outcomes(t) :
         Commit(t, IF ok THEN Await(Ext(t, ok), "wf_activate")
                   ELSE Throw(Ext(t, ok), "n8n"))
    /\ UNCHANGED <<profile, env, started, nextToolId>>

\* activateWorkflow answers: lines 382-386
WfActivate(t) ==
    /\ task[t].pc = "wf_activate"
    /\ \E ok \in Outcomes(t) :
         Commit(t, IF ok THEN Return(Ext(t, ok)) ELSE Throw(Ext(t, ok), "n8n"))
    /\ UNCHANGED <<profile, env, started, nextToolId>>

NextWorkflow ==
    \/ \E steps \in StepLists : CallCreateCustomWorkflow("a", steps, MaxRuns)
    \/ WfCreate("a")
    \/ WfActivate("a")

SpecWorkflow == InitOverlap /\ [][NextWorkflow]_vars

\* the node names met from `name` on by following connections, at most n
RECURSIVE Walk(_, _, _)
Walk(connections, name, n) ==
    IF n = 0 THEN <<>>
    ELSE <<name>> \o (IF name \in DOMAIN connections
                      THEN Walk(connections, connections[name], n - 1)
                      ELSE <<>>)

NodeNames(wf) == [i \in 1..Len(wf.nodes) |-> wf.nodes[i].name]

\* C32: the workflow that createCustomWorkflow hands to createWorkflow has
\* len(steps)+2 nodes, and following its connections from the trigger
\* visits every node once, in the order trigger, steps in list order,
\* terminal node, and ends there: one linear chain, no cycle, no
\* unreachable node.
C32_WorkflowIsLinearChain ==
    \A t \in TaskIds :
      LET s == task[t]
      IN s.kind = "workflow"
         => /\ Len(s.workflow.nodes) = Len(s.req.steps) + 2
            /\ Walk(s.workflow.connections, "Webhook", Len(s.workflow.nodes) + 1)
                 = NodeNames(s.workflow)

(***************************************************************************)
(* Tool ids bound by a run, and what its record says it created.           *)
(***************************************************************************)

BoundToolIds(p) == Range(ListOf(ModelOf(p), "toolIds"))

\* the run in slot t is inside its configuration write
InConfigWrite(t) ==
    task[t].kind = "improve" /\ task[t].pc \in {"ua_get_model", "ua_get_voice", "ua_patch"}

\* C33: in a run that nothing overlaps, every tool id addToolToAssistant
\* has attached so far is among the profile's bound tool ids, up to and
\* including the moment the run completes; and while the run's
\* configuration write is under way no tool has been attached yet.
C33_AttachedIdsStayBound ==
    \A t \in TaskIds :
      task[t].kind = "improve"
        => /\ Range(task[t].attached) \subseteq BoundToolIds(profile)
           /\ InConfigWrite(t) => task[t].attached = <<>>

\* a completed run that wrote its configuration and then attached two tools
C33_Witness ==
    \E t \in TaskIds :
      /\ task[t].kind = "improve" /\ task[t].pc = "done" /\ task[t].result = "returned"
      /\ Len(task[t].attached) = 2
      /\ \E i \in 1..Len(task[t].log) :
           task[t].log[i].step = "update_assistant" /\ task[t].log[i].status = "ok"
      /\ Has(ModelOf(profile), "maxTokens") /\ profile.model.maxTokens = 500

\* the names of the registry entries that were not there when the run in
\* state s started: the capabilities the run registered
RegisteredSince(s) ==
    {registry[i].name : i \in {j \in 1..Len(registry) : registry[j] \notin Range(s.reg0)}}

\* C34: when a run has returned, the toolsCreated of its record names
\* exactly the synthesized capabilities the run added to the registry.
C34_ToolsCreatedIsWhatWasRegistered ==
    \A t \in TaskIds :
      LET s == task[t]
      IN (ImproveDone(s) /\ s.result = "returned")
         => \A i \in RecordsOf(s.rid) :
              Range(history[i].toolsCreated) = RegisteredSince(s)

(***************************************************************************)
(* Reset to baseline.                                                      *)
(***************************************************************************)

ResetReturned(s) == s.kind = "reset" /\ s.pc = "done" /\ s.result = "returned"

ResetThrew(s) == s.kind = "reset" /\ s.pc = "done" /\ s.result = "threw"

\* the fields of the profile a change-set can set (AssistantConfig), read
\* from where updateAssistant writes them: <<v>> for a field whose value is
\* v, <<>> for a field the profile does not have
ConfigOf(p) ==
    [systemMessage |-> <<extractSystemMessage(p)>>,
     maxTokens |-> IF Has(ModelOf(p), "maxTokens") THEN <<p.model.maxTokens>> ELSE <<>>,
     voiceSpeed |-> IF Has(p, "voice") /\ Has(p.voice, "speed") THEN <<p.voice.speed>>
                    ELSE <<>>,
     firstMessage |-> IF Has(p, "firstMessage") THEN <<p.firstMessage>> ELSE <<>>,
     silenceTimeoutSeconds |-> IF Has(p, "silenceTimeoutSeconds")
                               THEN <<p.silenceTimeoutSeconds>> ELSE <<>>,
     maxDurationSeconds |-> IF Has(p, "maxDurationSeconds") THEN <<p.maxDurationSeconds>>
                            ELSE <<>>,
     messagePlan |-> IF Has(p, "messagePlan") THEN <<p.messagePlan>> ELSE <<>>,
     toolIds |-> <<ListOf(ModelOf(p), "toolIds")>>]

\* the value a field has at baseline: the one BASELINE names, else the one
\* the profile had before any run
BaselineValue(k) ==
    IF Has(BASELINE, k) THEN <<BASELINE[k]>> ELSE ConfigOf(InitialProfile)[k]

\* C35: after a successful resetToBaseline every field a change-set can
\* modify (instructions, generation limit, voice rate, greeting, silence
\* timeout, maximum duration, idle plan, bound tool ids) has its baseline
\* value, whatever earlier runs wrote.
C35_ResetRestoresEveryConfigField ==
    \A t \in TaskIds :
      ResetReturned(task[t])
        => \A k \in DOMAIN ConfigOf(profile) : ConfigOf(profile)[k] = BaselineValue(k)

\* C36: a resetToBaseline whose profile write fails rejects with the error
\* of that write, and no step of a reset that has not returned changes the
\* registry or the history: they are as they were when the reset began.
C36_FailedResetChangesNothing ==
    /\ [](\A t \in TaskIds :
            ResetThrew(task[t])
              => /\ task[t].error = "updateAssistant"
                 /\ task[t].failed # <<>>
                 /\ registry = task[t].reg0
                 /\ Len(history) = task[t].hist0)
    /\ [][\A t \in TaskIds :
            (task'[t].kind = "reset" /\ ~ResetReturned(task'[t]))
              => registry' = registry /\ history' = history]_vars

\* a reset after a run that left a record and a synthesized capability,
\* failing at its PATCH
C36_Witness ==
    \E t \in TaskIds :
      /\ ResetThrew(task[t])
      /\ task[t].failed = <<"ua_patch">>
      /\ history # <<>>
      /\ \E i \in 1..Len(registry) : registry[i].isDynamic

(***************************************************************************)
(* A reset while a run is in flight: the run in slot "a" is started by an  *)
(* end-of-call report and not awaited (server.ts lines 98-106), POST /reset *)
(* arrives in slot "b" at any later moment.                                *)
(***************************************************************************)

NextResetRace ==
    \/ task["a"].pc = "idle" /\ \E c \in CallIds : StartImprove("a", c, "", 1)
    \/ task["a"].kind = "improve" /\ StartReset("b", 2)
    \/ StepOverlap("a")
    \/ UaGetModel("b")
    \/ UaGetVoice("b")
    \/ UaPatch("b")

SpecResetRace == InitOverlap /\ [][NextResetRace]_vars

\* the reset in slot "b" returns in this step
ResetCompletes == ~ResetReturned(task["b"]) /\ ResetReturned(task'["b"])

DynamicNames(reg) == {reg[i].name : i \in {j \in 1..Len(reg) : reg[j].isDynamic}}

\* C37: a reset does not stop or wait for a run in flight.  The step in
\* which the reset returns empties the history and the synthesized part of
\* the registry and leaves the run's own state as it is; the run goes on,
\* and its later push appends its record to whatever the history then is.
\* So after a reset has returned, with no run started since, the history
\* and the synthesized capabilities hold what that run wrote afterwards,
\* and nothing else.
C37_ResetDoesNotIsolateRun ==
    /\ [][ResetCompletes
            => /\ history' = <<>>
               /\ registry' = clearDynamicTools(registry)
               /\ task'["a"] = task["a"]]_vars
    /\ [][task'["a"].pushed = task["a"].pushed + 1
            => history' = Append(history, task'["a"].rec)]_vars
    /\ [](ResetReturned(task["b"])
            => /\ \A i \in 1..Len(history) : history[i].rid = task["a"].rid
               /\ DynamicNames(registry) \subseteq
                    {task["a"].analysis.newTools[i].name :
                       i \in 1..Len(ListOf(task["a"].analysis, "newTools"))})

\* a reset has returned, no run has started since, and the history holds a
\* record and the registry a synthesized capability
C37_Witness ==
    /\ ResetReturned(task["b"])
    /\ task["a"].rid < task["b"].rid
    /\ started = task["b"].rid
    /\ task["a"].pc = "done" /\ task["a"].result = "returned"
    /\ history # <<>>
    /\ DynamicNames(registry) # {}

(***************************************************************************)
(* The step log of a run and of its record.                                *)
(***************************************************************************)

IsPrefix(p, q) == Len(p) <= Len(q) /\ \A i \in 1..Len(p) : q[i] = p[i]

\* C38: once a run has returned, its record in the history carries the
\* whole step log of the run, the callback entry that is appended after
\* the record was pushed included; and no step changes or removes an entry
\* a log already has, in the run's hands or in the history.
C38_RecordCarriesFullLog ==
    /\ [](\A t \in TaskIds :
            LET s == task[t]
            IN (ImproveDone(s) /\ s.result = "returned")
               => /\ RecordsOf(s.rid) # {}
                  /\ \A i \in RecordsOf(s.rid) :
                       /\ history[i].pipelineLog = s.log
                       /\ history[i].pipelineLog[Len(s.log)].step = "callback")
    /\ [][\A t \in TaskIds :
            task'[t].rid = task[t].rid => IsPrefix(task[t].log, task'[t].log)]_vars
    /\ [][\A i \in 1..Len(history) :
            (i <= Len(history') /\ history'[i].rid = history[i].rid)
              => IsPrefix(history[i].pipelineLog, history'[i].pipelineLog)]_vars

\* a returned run whose record was pushed before its callback failed, and
\* whose stored log ends with that callback entry
C38_Witness ==
    \E t \in TaskIds :
      LET s == task[t]
      IN /\ ImproveDone(s) /\ s.result = "returned" /\ s.pushed = 1
         /\ \E i \in RecordsOf(s.rid) :
              LET pl == history[i].pipelineLog
              IN /\ pl[Len(pl)] = [step |-> "callback", status |-> "error", item |-> ""]
                 /\ ~history[i].callbackTriggered

(***************************************************************************)
(* Termination of a run: every awaited call eventually answers.            *)
(***************************************************************************)

\* the reasoning service fails, answers with text that does not decode, or
\* with a change-set of two capabilities, two automations and two resource
\* requests
TerminateOutcomes ==
    {[kind |-> "throw"], [kind |-> "garbage"],
     [kind |-> "json",
      value |-> [failures |-> <<"f1">>, changes |-> <<"c1">>,
                 configChanges |-> [maxTokens |-> 500, voiceSpeed |-> 85],
                 newTools |-> <<[name |-> "lookup_rate", handlerCode |-> "valid"],
                                [name |-> "track_vessel", handlerCode |-> "valid"]>>,
                 newWorkflows |-> <<[name |-> "Send Customer WhatsApp",
                                     webhookPath |-> "send-customer-whatsapp",
                                     steps |-> 1],
                                    [name |-> "Notify Ops", webhookPath |-> "notify-ops",
                                     steps |-> 1]>>,
                 resourceRequests |-> <<"need credentials", "need api key">>]]}

StepTerminate(t) ==
    \/ Analyze(t, TerminateOutcomes)
    \/ StepImprove(t)

NextTerminate ==
    \/ \E c \in CallIds, n \in Customers : StartImprove("a", c, n, 1)
    \/ StepTerminate("a")

SpecTerminate == Init /\ [][NextTerminate]_vars /\ WF_vars(StepTerminate("a"))

\* the place of an awaited call inside its step or loop turn
SubRank(pc) ==
    CASE pc \in {"ua_get_model", "crt_vapi_tool", "settle"} -> 1
      [] pc \in {"ua_get_voice", "crt_attach_get", "callback"} -> 2
      [] pc \in {"ua_patch", "crt_attach_patch", "callback_notify"} -> 3
      [] pc = "crt_notify" -> 4
      [] pc = "test_tool" -> 5
      [] OTHER -> 0

\* how far a run is: its step, then the turns its loops have begun, then
\* the awaited call inside the turn
Progress(s) == PhaseRank(s) * 1000 + (s.ti + s.wi + s.ri) * 10 + SubRank(s.pc)

CountOf(log, step, status) ==
    Cardinality({i \in 1..Len(log) : log[i].step = step /\ log[i].status = status})

\* C39: if every external call eventually answers or fails, a run
\* eventually returns or throws.  No step repeats: every step of a run
\* moves it strictly forward.  The loops over the requested capabilities,
\* automations and resource requests begin one turn at a time and never
\* more turns than the list has items, and a run that returned has made
\* exactly one turn per item.  A run that has not ended is waiting for the
\* answer of an external call.
C39_RunTerminates ==
    /\ \A t \in TaskIds : task[t].kind = "improve" ~> task[t].pc = "done"
    /\ [][\A t \in TaskIds :
            (task[t].kind = "improve" /\ task'[t] # task[t])
              => /\ Progress(task'[t]) > Progress(task[t])
                 /\ task'[t].ti - task[t].ti \in {0, 1}
                 /\ task'[t].wi - task[t].wi \in {0, 1}
                 /\ task'[t].ri - task[t].ri \in {0, 1}]_vars
    /\ [](\A t \in TaskIds :
            LET s == task[t]
            IN s.kind = "improve"
               => /\ s.ti <= Len(ListOf(s.analysis, "newTools"))
                  /\ s.wi <= Len(ListOf(s.analysis, "newWorkflows"))
                  /\ s.ri <= Len(ListOf(s.analysis, "resourceRequests"))
                  /\ (s.pc = "done" /\ s.result = "returned")
                       => /\ s.ti = Len(ListOf(s.analysis, "newTools"))
                          /\ CountOf(s.log, "create_tool", "ok") = s.ti
                          /\ env.n8n => s.wi = Len(ListOf(s.analysis, "newWorkflows"))
                          /\ s.ri = Len(ListOf(s.analysis, "resourceRequests"))
                          /\ CountOf(s.log, "resource_request", "ok") = s.ri
                  /\ s.pc # "done" => ENABLED StepTerminate(t))

\* a run over two capabilities, two automations and two resource requests
\* that returned after two of its external calls had failed
C39_Witness ==
    \E t \in TaskIds :
      LET s == task[t]
      IN /\ ImproveDone(s) /\ s.result = "returned"
         /\ s.ti = 2 /\ s.wi = 2 /\ s.ri = 2
         /\ Len(s.failed) = 2
         /\ Len(s.workflowsCreated) = 1
====
